---- MODULE Spec2Model ----
(***************************************************************************)
(* Markovia: the Annotation Range Tracker (src/src/rangeTracker.ts).       *)
(* A document session holds one list of LineRange records, the external    *)
(* authorship overlay.  addRange, removeRange and adjustRanges are pure    *)
(* functions of that list; the session replaces its list by their result.  *)
(***************************************************************************)
EXTENDS Integers, Sequences, FiniteSets

\* ---------------------------------------------------------------- bounds
\* Highest line number a range or an edit may name.
MaxLine == 5
\* Longest inserted text (characters) of one edit.
MaxText == 1

Lines == 0..MaxLine

\* LineRange { start, end } with 0 <= start <= end (types/authorship.ts).
LineRange == {r \in [start : Lines, end : Lines] : r.start <= r.end}

\* Characters of an inserted text: only the line feed matters to the tracker.
Chars == {"a", "\n"}

Texts == UNION {[1..k -> Chars] : k \in 0..MaxText}

Max(a, b) == IF a >= b THEN a ELSE b

Min(a, b) == IF a <= b THEN a ELSE b

\* ------------------------------------------------------------ mergeRanges
\* Array.prototype.sort with the comparator (a, b) => a.start - b.start is
\* stable: x goes behind every element whose start is <= x.start.
RECURSIVE InsertByStart(_, _)
InsertByStart(sorted, x) ==
    IF sorted = <<>> THEN <<x>>
    ELSE IF sorted[Len(sorted)].start <= x.start THEN Append(sorted, x)
    ELSE Append(InsertByStart(SubSeq(sorted, 1, Len(sorted) - 1), x), sorted[Len(sorted)])

RECURSIVE SortByStart(_)
SortByStart(rs) ==
    IF rs = <<>> THEN <<>>
    ELSE InsertByStart(SortByStart(SubSeq(rs, 1, Len(rs) - 1)), rs[Len(rs)])

\* current.start <= last.end + 1 : the ranges overlap or are adjacent.
TouchesOverlapOnly(current, last) == current.start <= last.end

Touches(current, last) == current.start <= last.end + 1

\* last.end = Math.max(last.end, current.end)
MergedEndCurrent(last, current) == current.end

MergedEnd(last, current) == Max(last.end, current.end)

\* The for loop of mergeRanges, from index i with the list merged so far.
\* (A loop that tests current against the element before it in sorted instead
\* of against the last merged range.)
RECURSIVE MergeLoopAgainstPrevious(_, _, _)
MergeLoopAgainstPrevious(sorted, i, merged) ==
    IF i > Len(sorted) THEN merged
    ELSE LET current == sorted[i]
             last == merged[Len(merged)]
         IN IF current.start <= sorted[i - 1].end + 1
            THEN MergeLoopAgainstPrevious(sorted, i + 1,
                     [merged EXCEPT ![Len(merged)].end = Max(last.end, current.end)])
            ELSE MergeLoopAgainstPrevious(sorted, i + 1, Append(merged, current))

RECURSIVE MergeLoop(_, _, _)
MergeLoop(sorted, i, merged) ==
    IF i > Len(sorted) THEN merged
    ELSE LET current == sorted[i]
             last == merged[Len(merged)]
         IN IF Touches(current, last)
            THEN MergeLoop(sorted, i + 1,
                     [merged EXCEPT ![Len(merged)].end = MergedEnd(last, current)])
            ELSE MergeLoop(sorted, i + 1, Append(merged, current))

mergeRanges(rs) ==
    IF Len(rs) = 0 THEN <<>>
    ELSE LET sorted == SortByStart(rs)
         IN MergeLoop(sorted, 2, <<sorted[1]>>)

\* --------------------------------------------------------------- addRange
addRangeWithoutMerge(rs, newRange) == Append(rs, newRange)

addRange(rs, newRange) == mergeRanges(Append(rs, newRange))

\* ------------------------------------------------------------ removeRange
\* The part of range in front of the removal.
KeepBeforeOffByOne(range, rem) ==
    [start |-> range.start, end |-> Min(range.end, rem.start)]

KeepBefore(range, rem) ==
    [start |-> range.start, end |-> Min(range.end, rem.start - 1)]

\* The part of range behind the removal.
KeepAfter(range, rem) ==
    [start |-> Max(range.start, rem.end + 1), end |-> range.end]

\* One iteration of the loop of removeRange: what range contributes to result.
RemoveOne(range, rem) ==
    IF rem.end < range.start \/ rem.start > range.end
    THEN <<range>>
    ELSE (IF rem.start > range.start THEN <<KeepBefore(range, rem)>> ELSE <<>>)
         \o (IF rem.end < range.end THEN <<KeepAfter(range, rem)>> ELSE <<>>)

RECURSIVE Flatten(_)
Flatten(ss) == IF ss = <<>> THEN <<>> ELSE Head(ss) \o Flatten(Tail(ss))

removeRange(rs, rem) == Flatten([i \in 1..Len(rs) |-> RemoveOne(rs[i], rem)])

\* ----------------------------------------------------------- adjustRanges
\* newText.split('\n').length : one piece more than there are line feeds.
SplitLength(text) == 1 + Cardinality({i \in DOMAIN text : text[i] = "\n"})

NewLineCountIsSplitLength(text) == SplitLength(text)

NewLineCount(text) == SplitLength(text) - 1

LinesDeltaIgnored(newLineCount, linesDeleted) == 0

LinesDelta(newLineCount, linesDeleted) == newLineCount - linesDeleted

\* Change is completely before the range - shift it.
ShiftStartOnly(range, linesDelta) ==
    [start |-> range.start + linesDelta, end |-> range.end]

ShiftBoth(range, linesDelta) ==
    [start |-> range.start + linesDelta, end |-> range.end + linesDelta]

\* Change overlaps the start of the range and starts before it.
MoveStartToEditStart(range, startLine, newLineCount, linesDelta) ==
    [start |-> startLine, end |-> range.end + linesDelta]

MoveStart(range, startLine, newLineCount, linesDelta) ==
    [start |-> startLine + newLineCount, end |-> range.end + linesDelta]

\* Change lies within the range - extend (or shrink) its end.
ExtendEndByInserted(range, newLineCount, linesDelta) ==
    [start |-> range.start, end |-> range.end + newLineCount]

ExtendEnd(range, newLineCount, linesDelta) ==
    [start |-> range.start, end |-> range.end + linesDelta]

\* Change extends beyond the range - shrink to change start.
ShrinkBeforeStart(range, startLine) ==
    [start |-> range.start, end |-> startLine - 1]

ShrinkToStart(range, startLine) ==
    [start |-> range.start, end |-> startLine]

\* Change completely encompasses the range.
EncompassesStrictly(range, startLine, endLine) ==
    startLine < range.start /\ endLine >= range.end

Encompasses(range, startLine, endLine) ==
    startLine <= range.start /\ endLine >= range.end

\* else if (startLine <= range.end) : change starts within the range.
StartsWithinOrBehind(range, startLine) == startLine <= range.end + 1

StartsWithin(range, startLine) == startLine <= range.end

\* if (newRange.start <= newRange.end && newRange.start >= 0)
ValidRange(newRange) == newRange.start <= newRange.end /\ newRange.start >= 0

\* One iteration of the loop of adjustRanges: what range contributes to
\* adjustedRanges (nothing when it is skipped or fails validation).
AdjustOne(range, startLine, endLine, newLineCount) ==
    LET linesDeleted == endLine - startLine
        linesDelta == LinesDelta(newLineCount, linesDeleted)
        skip == /\ startLine <= range.start
                /\ ~(endLine < range.start)
                /\ ~(endLine <= range.end)
                /\ Encompasses(range, startLine, endLine)
        newRange ==
            IF startLine <= range.start
            THEN IF endLine < range.start
                 THEN ShiftBoth(range, linesDelta)
                 ELSE IF endLine <= range.end
                      THEN IF startLine < range.start
                           THEN MoveStart(range, startLine, newLineCount, linesDelta)
                           ELSE ExtendEnd(range, newLineCount, linesDelta)
                      ELSE range
            ELSE IF StartsWithin(range, startLine)
                 THEN IF endLine <= range.end
                      THEN ExtendEnd(range, newLineCount, linesDelta)
                      ELSE ShrinkToStart(range, startLine)
                 ELSE range
    IN IF skip THEN <<>>
       ELSE IF ValidRange(newRange) THEN <<newRange>> ELSE <<>>

\* The loop of adjustRanges: per range of the input, its contribution.
AdjustEach(rs, change) ==
    [i \in 1..Len(rs) |->
        AdjustOne(rs[i], change.startLine, change.endLine, NewLineCount(change.text))]

adjustRanges(rs, change) ==
    IF Len(rs) = 0 THEN <<>>
    ELSE mergeRanges(Flatten(AdjustEach(rs, change)))

\* -------------------------------------------------------------- the session
VARIABLES
    ranges,   \* the AnnotationSet of the document
    prev,     \* the AnnotationSet before the last operation
    last,     \* the last operation and its argument
    image     \* adjustRanges: per range of prev, its adjusted range before the merge

\* A function of the program applied to an argument: the argument, the results.
VARIABLES inp, out

\* The active text editor: its document, its decorations, the setting
\* markovia.enableWYSIWYG, and lastIndex of METADATA_PATTERNS.recurrence.
VARIABLES editor

\* The todo features of the extension: the TodoNotificationService with the
\* timers it has set, the TodoPanelProvider with the scan it awaits, and the
\* markdown files of the workspace folder.
VARIABLES service, panel, workspace

trackerVars == <<ranges, prev, last, image>>

callVars == <<inp, out>>

taskVars == <<service, panel, workspace>>

vars == <<ranges, prev, last, image, inp, out, editor,
          service, panel, workspace>>

\* AuthorshipData.external is a list of LineRange records.
TypeOK ==
    /\ \A i \in 1..Len(ranges) : ranges[i] \in LineRange
    /\ \A i \in 1..Len(prev) : prev[i] \in LineRange
    /\ last.op \in {"open", "add", "remove", "adjust"}
    /\ Len(image) = (IF last.op = "adjust" THEN Len(prev) ELSE 0)

NoOp == [op |-> "open", start |-> 0, end |-> 0, text |-> <<>>]

\* No function call is being followed.
NoCall == inp = <<>> /\ out = <<>>

\* A document is opened with an empty AnnotationSet.
NoSession ==
    /\ ranges = <<>>
    /\ prev = <<>>
    /\ last = NoOp
    /\ image = <<>>

\* No editor is in use.
NoEditor ==
    editor = [text |-> <<>>,
              selection |-> [start |-> [line |-> 0, character |-> 0],
                             end |-> [line |-> 0, character |-> 0]],
              decorations |-> <<>>,
              enableWYSIWYG |-> TRUE,
              lastIndex |-> 0]

\* The todo features are not in use.
NoTasks ==
    /\ service = [dailyCheckTimer |-> 0, timers |-> {}, created |-> 0,
                  awaiting |-> 0, activation |-> "none", disposed |-> FALSE,
                  checkedAfterDispose |-> FALSE]
    /\ panel = [todos |-> <<>>, isScanning |-> FALSE, scanner |-> "idle",
                found |-> <<>>, failed |-> FALSE]
    /\ workspace = <<>>

Init == NoSession /\ NoTasks /\ NoCall /\ NoEditor

\* "tag as external": add(range)
Add(r) ==
    /\ ranges' = addRange(ranges, r)
    /\ prev' = ranges
    /\ last' = [op |-> "add", start |-> r.start, end |-> r.end, text |-> <<>>]
    /\ image' = <<>>
    /\ UNCHANGED <<callVars, editor, taskVars>>

\* "untag": remove(range)
Remove(r) ==
    /\ ranges' = removeRange(ranges, r)
    /\ prev' = ranges
    /\ last' = [op |-> "remove", start |-> r.start, end |-> r.end, text |-> <<>>]
    /\ image' = <<>>
    /\ UNCHANGED <<callVars, editor, taskVars>>

InBounds(rs) == \A i \in 1..Len(rs) : rs[i].end <= MaxLine

\* A document edit replacing lines startLine..endLine by text.
Adjust(startLine, endLine, text) ==
    LET change == [startLine |-> startLine, endLine |-> endLine, text |-> text]
        result == adjustRanges(ranges, change)
    IN /\ startLine <= endLine
       /\ InBounds(result)
       /\ ranges' = result
       /\ prev' = ranges
       /\ last' = [op |-> "adjust", start |-> startLine, end |-> endLine, text |-> text]
       /\ image' = AdjustEach(ranges, change)
       /\ UNCHANGED <<callVars, editor, taskVars>>

Next ==
    \/ \E r \in LineRange : Add(r)
    \/ \E r \in LineRange : Remove(r)
    \/ \E s \in Lines, e \in Lines, t \in Texts : Adjust(s, e, t)

Spec == Init /\ [][Next]_vars

\* ------------------------------------------------------------ vocabulary
\* The lines a list of ranges covers.
Covered(rs) == UNION {rs[i].start..rs[i].end : i \in 1..Len(rs)}

\* The AnnotationSet invariant.
Normalized(rs) ==
    /\ \A i \in 1..Len(rs) : 0 <= rs[i].start /\ rs[i].start <= rs[i].end
    /\ \A i \in 1..(Len(rs) - 1) : rs[i].start < rs[i + 1].start
    /\ \A i \in 1..(Len(rs) - 1) : rs[i + 1].start - rs[i].end >= 2

Rng(a, b) == [start |-> a, end |-> b]

\* The EditDelta of the last edit.
editStartLine == last.start

editEndLineExclusive == last.end

insertedLineCount == Cardinality({i \in DOMAIN last.text : last.text[i] = "\n"})

d == insertedLineCount - (editEndLineExclusive - editStartLine)

\* ------------------------------------------------------------------- C1
\* C1: from the empty set, after any sequence of add, remove and adjustForEdit
\* with valid arguments, the set is sorted ascending by start, every range has
\* 0 <= start <= end, and consecutive ranges are at least 2 apart.
C1_Normalized == Normalized(ranges)

\* An edit has pulled two ranges together and the merge pass coalesced them.
C1_Witness ==
    /\ last.op = "adjust"
    /\ Len(prev) >= 2
    /\ Len(Flatten(image)) = Len(prev)
    /\ Len(ranges) < Len(prev)

\* ------------------------------------------------------------------- C2
\* C2: add(S, r) is the normalized set covering exactly lines(S) and
\* r.start..r.end; touching ranges coalesce (add([{0,2}], {3,5}) = [{0,5}]),
\* ranges one untagged line apart stay distinct.
C2_AddIsUnion ==
    last.op = "add" =>
        /\ Normalized(ranges)
        /\ Covered(ranges) = Covered(prev) \cup (last.start..last.end)
        /\ (prev = <<Rng(0, 2)>> /\ last.start = 3 /\ last.end = 5
               => ranges = <<Rng(0, 5)>>)
        /\ (prev = <<Rng(0, 2)>> /\ last.start = 4 /\ last.end = 5
               => ranges = <<Rng(0, 2), Rng(4, 5)>>)

C2_Witness ==
    /\ last.op = "add"
    /\ prev = <<Rng(0, 2)>>
    /\ last.start = 3 /\ last.end = 5
    /\ ranges = <<Rng(0, 5)>>

\* ------------------------------------------------------------------- C3
\* C3: remove(S, r) covers exactly lines(S) minus r.start..r.end; a range q
\* strictly containing r is replaced by {q.start, r.start-1} and
\* {r.end+1, q.end}, every other range of S staying as it was.
C3_RemoveIsDifference ==
    last.op = "remove" =>
        /\ Covered(ranges) = Covered(prev) \ (last.start..last.end)
        /\ Normalized(ranges)
        /\ \A i \in 1..Len(prev) :
              prev[i].start < last.start /\ last.end < prev[i].end
              => ranges = SubSeq(prev, 1, i - 1)
                          \o <<Rng(prev[i].start, last.start - 1),
                               Rng(last.end + 1, prev[i].end)>>
                          \o SubSeq(prev, i + 1, Len(prev))

\* A one-line removal splits a range, next to a range it leaves alone.
C3_Witness ==
    /\ last.op = "remove"
    /\ Len(prev) = 2
    /\ Len(ranges) = 3
    /\ last.start = last.end
    /\ \E i \in 1..Len(prev) : prev[i].start < last.start /\ last.end < prev[i].end

\* ------------------------------------------------------------------- C4
\* C4 as stated: every range r with editEndLineExclusive <= r.start, a pure
\* insertion at r.start included, has start and end shifted by d before the
\* merge pass.
C4_BeforeShiftsBoth ==
    last.op = "adjust" =>
        \A i \in 1..Len(prev) :
            editEndLineExclusive <= prev[i].start
            => image[i] = <<Rng(prev[i].start + d, prev[i].end + d)>>

\* C4 as amended: every range r with editEndLineExclusive <= r.start and
\* editStartLine < r.start has start and end shifted by d before the merge
\* pass; an edit with editStartLine = editEndLineExclusive = r.start leaves
\* r.start where it is and shifts only r.end by d.
C4_StrictlyBeforeShiftsBoth ==
    last.op = "adjust" =>
        \A i \in 1..Len(prev) :
            /\ editEndLineExclusive <= prev[i].start /\ editStartLine < prev[i].start
               => image[i] = <<Rng(prev[i].start + d, prev[i].end + d)>>
            /\ editEndLineExclusive = prev[i].start /\ editStartLine = prev[i].start
               => image[i] = <<Rng(prev[i].start, prev[i].end + d)>>

\* Lines ending exactly at r.start were deleted and r moved up as a whole.
C4_Witness ==
    /\ last.op = "adjust"
    /\ \E i \in 1..Len(prev) :
          /\ editEndLineExclusive = prev[i].start
          /\ editStartLine < prev[i].start
          /\ d < 0
          /\ image[i] = <<Rng(prev[i].start + d, prev[i].end + d)>>

\* ------------------------------------------------------------------- C5
\* C5: for every range r with editStartLine >= r.start and
\* r.start < editEndLineExclusive <= r.end, r.start is unchanged and r.end
\* becomes r.end + d, before the merge pass and in the result; {0,5} with the
\* edit (1, 4, 0 lines inserted) becomes {0,2}.
C5_InteriorExtendsEnd ==
    last.op = "adjust" =>
        /\ \A i \in 1..Len(prev) :
              /\ editStartLine >= prev[i].start
              /\ prev[i].start < editEndLineExclusive
              /\ editEndLineExclusive <= prev[i].end
              => /\ image[i] = <<Rng(prev[i].start, prev[i].end + d)>>
                 /\ \E j \in 1..Len(ranges) :
                       ranges[j] = Rng(prev[i].start, prev[i].end + d)
        /\ (/\ prev = <<Rng(0, 5)>>
            /\ editStartLine = 1 /\ editEndLineExclusive = 4 /\ insertedLineCount = 0)
           => ranges = <<Rng(0, 2)>>

C5_Witness ==
    /\ last.op = "adjust"
    /\ prev = <<Rng(0, 5)>>
    /\ editStartLine = 1 /\ editEndLineExclusive = 4 /\ insertedLineCount = 0
    /\ ranges = <<Rng(0, 2)>>

\* ------------------------------------------------------------------- C6
\* C6: for every range r with editStartLine < r.start and
\* r.start < editEndLineExclusive <= r.end, before the merge pass r.start is
\* editStartLine + insertedLineCount and r.end is r.end + d.
C6_LeadingOverlapMovesStart ==
    last.op = "adjust" =>
        \A i \in 1..Len(prev) :
            /\ editStartLine < prev[i].start
            /\ prev[i].start < editEndLineExclusive
            /\ editEndLineExclusive <= prev[i].end
            => image[i] = <<Rng(editStartLine + insertedLineCount, prev[i].end + d)>>

C6_Witness ==
    /\ last.op = "adjust"
    /\ insertedLineCount > 0
    /\ \E i \in 1..Len(prev) :
          /\ editStartLine < prev[i].start
          /\ prev[i].start < editEndLineExclusive
          /\ editEndLineExclusive <= prev[i].end
          /\ image[i] = <<Rng(editStartLine + insertedLineCount, prev[i].end + d)>>

C8_EncompassedIsDeleted ==
    last.op = "adjust" =>
        \A i \in 1..Len(prev) :
            /\ editStartLine <= prev[i].start
            /\ editEndLineExclusive >= prev[i].end + 1
            => /\ image[i] = <<>>
               /\ Covered(ranges) =
                     UNION {Covered(image[j]) : j \in (1..Len(prev)) \ {i}}

\* A covered range is deleted while text is inserted and another range survives.
C8_Witness ==
    /\ last.op = "adjust"
    /\ insertedLineCount > 0
    /\ ranges # <<>>
    /\ \E i \in 1..Len(prev) :
          /\ editStartLine <= prev[i].start
          /\ editEndLineExclusive >= prev[i].end + 1
          /\ image[i] = <<>>

\* ------------------------------------------------------------------- C9
\* C9 as stated: every range r with editStartLine > r.end is in the result
\* with the same start and end.
C9_AfterKeepsRange ==
    last.op = "adjust" =>
        \A i \in 1..Len(prev) :
            editStartLine > prev[i].end
            => \E j \in 1..Len(ranges) : ranges[j] = prev[i]

\* C9 as amended: every range r with editStartLine > r.end keeps its start
\* and end before the merge pass; in the result it keeps its start, and it
\* keeps its end unless the merge pass coalesces it with a following range
\* that the edit moved up to start at line r.end + 1.
C9_AfterKeepsRangeBeforeMerge ==
    last.op = "adjust" =>
        \A i \in 1..Len(prev) :
            editStartLine > prev[i].end
            => /\ image[i] = <<prev[i]>>
               /\ \E j \in 1..Len(ranges) :
                     /\ ranges[j].start = prev[i].start
                     /\ ranges[j].end >= prev[i].end
                     /\ \/ ranges[j].end = prev[i].end
                        \/ \E k \in (i + 1)..Len(prev) :
                              /\ image[k] # <<>>
                              /\ image[k][1].start = prev[i].end + 1

\* An edit behind r that changes the line count and a following range.
C9_Witness ==
    /\ last.op = "adjust"
    /\ d # 0
    /\ Len(prev) >= 2
    /\ \E i \in 1..Len(prev) :
          /\ editStartLine > prev[i].end
          /\ image[i] = <<prev[i]>>
          /\ \E j \in 1..Len(ranges) : ranges[j] = prev[i]

\* ------------------------------------------------------------------ C10
\* C10 as stated: an edit that replaces N lines by N lines (d = 0) leaves
\* the set as it was, wherever the edit lies.
C10_ZeroDeltaIsIdentity ==
    last.op = "adjust" /\ d = 0 => ranges = prev

\* C10 as amended: an edit with d = 0 leaves the set as it was provided
\* that, for every range r, the edit lies entirely before r
\* (editEndLineExclusive <= r.start), inside r (editStartLine >= r.start and
\* editEndLineExclusive <= r.end) or entirely after r (editStartLine > r.end).
C10_ZeroDeltaClearOfBoundaries ==
    (/\ last.op = "adjust"
     /\ d = 0
     /\ \A i \in 1..Len(prev) :
           \/ editEndLineExclusive <= prev[i].start
           \/ editStartLine >= prev[i].start /\ editEndLineExclusive <= prev[i].end
           \/ editStartLine > prev[i].end)
    => ranges = prev

\* One line inside a range is replaced by one line, between two ranges.
C10_Witness ==
    /\ last.op = "adjust"
    /\ d = 0
    /\ insertedLineCount > 0
    /\ Len(prev) >= 2
    /\ \E i \in 1..Len(prev) :
          editStartLine >= prev[i].start /\ editEndLineExclusive <= prev[i].end
    /\ ranges = prev

\* ------------------------------------------------------------------ C11
\* A range as a caller may pass it: the type does not rule out start > end or
\* a negative start.
AnyRange == [start : (-1)..MaxLine, end : (-1)..MaxLine]

StructurallyInvalid(r) == r.start > r.end \/ r.start < 0

\* add(range) with any range, on a set that satisfies the invariant.
AddAny(r) ==
    /\ Normalized(ranges)
    /\ ranges' = addRange(ranges, r)
    /\ prev' = ranges
    /\ last' = [op |-> "add", start |-> r.start, end |-> r.end, text |-> <<>>]
    /\ image' = <<>>
    /\ UNCHANGED <<callVars, editor, taskVars>>

\* remove(range) with any range, on a set that satisfies the invariant.
RemoveAny(r) ==
    /\ Normalized(ranges)
    /\ ranges' = removeRange(ranges, r)
    /\ prev' = ranges
    /\ last' = [op |-> "remove", start |-> r.start, end |-> r.end, text |-> <<>>]
    /\ image' = <<>>
    /\ UNCHANGED <<callVars, editor, taskVars>>

NextAny ==
    \/ \E r \in AnyRange : AddAny(r)
    \/ \E r \in AnyRange : RemoveAny(r)

SpecAny == Init /\ [][NextAny]_vars

\* C11: add(range) and remove(range) with a structurally invalid range
\* (start > end or start < 0) discard it: the set after the call is the set
\* before it.
C11_InvalidIsDiscarded ==
    (/\ last.op \in {"add", "remove"}
     /\ StructurallyInvalid([start |-> last.start, end |-> last.end]))
    => ranges = prev

\* The same, for add alone and for remove alone.
C11_InvalidAddIsDiscarded ==
    (last.op = "add" /\ StructurallyInvalid([start |-> last.start, end |-> last.end]))
    => ranges = prev

C11_InvalidRemoveIsDiscarded ==
    (last.op = "remove" /\ StructurallyInvalid([start |-> last.start, end |-> last.end]))
    => ranges = prev

\* ------------------------------------------------------------------ C12
\* C12: for a normalized set S and a valid range r lying inside one range of
\* S, add(S, r) = S, the same ranges in the same order.
C12_AddContainedIsNoOp ==
    (/\ last.op = "add"
     /\ \E i \in 1..Len(prev) :
           prev[i].start <= last.start /\ last.end <= prev[i].end)
    => ranges = prev

\* r lies strictly inside the second of two ranges.
C12_Witness ==
    /\ last.op = "add"
    /\ Len(prev) = 2
    /\ prev[2].start < last.start /\ last.end < prev[2].end
    /\ ranges = prev

\* ------------------------------------------------------------------ C13
\* mergeRanges called directly on any list of ranges, and again on its result.
MaxMergeLine == 2

MaxList == 3

\* Any two line numbers make a range here: start > end is not excluded.
MergeRange == [start : 0..MaxMergeLine, end : 0..MaxMergeLine]

RangeLists == UNION {[1..n -> MergeRange] : n \in 0..MaxList}

InitMerge == NoSession /\ NoTasks /\ NoEditor /\ inp \in RangeLists /\ out = <<>>

\* mergeRanges(S)
MergeOnce ==
    /\ out = <<>>
    /\ out' = <<mergeRanges(inp)>>
    /\ UNCHANGED <<inp, trackerVars, taskVars, editor>>

\* mergeRanges(mergeRanges(S))
MergeAgain ==
    /\ Len(out) = 1
    /\ out' = Append(out, mergeRanges(out[1]))
    /\ UNCHANGED <<inp, trackerVars, taskVars, editor>>

NextMerge == MergeOnce \/ MergeAgain

SpecMerge == InitMerge /\ [][NextMerge]_vars

\* C13: for any finite list S of ranges, in any order, overlapping or not,
\* mergeRanges(mergeRanges(S)) = mergeRanges(S).
C13_MergeIdempotent == Len(out) = 2 => out[2] = out[1]

\* An unsorted list with an overlap and an adjacency: the first merge reorders
\* and coalesces, the second changes nothing.
C13_Witness ==
    /\ Len(out) = 2
    /\ Len(inp) = 3
    /\ inp[1].start > inp[2].start
    /\ inp[2].end >= inp[3].start /\ inp[2].start <= inp[3].start
    /\ Len(out[1]) = 2
    /\ out[1] # inp
    /\ out[2] = out[1]

\* ------------------------------------------------------------------ C14
\* Two edits d1, d2 made in this order on a document whose set is S, and the
\* calls of adjustRanges they cause: in order, swapped, or one of them twice.
MaxOrderLine == 2

OrderLines == 0..MaxOrderLine

\* An edit removes its lines and inserts nothing or one line break.
OrderTexts == {<<>>, <<"\n">>}

Changes ==
    {c \in [startLine : OrderLines, endLine : OrderLines, text : OrderTexts] :
        c.startLine <= c.endLine}

NormalizedSets ==
    {rs \in UNION {[1..n -> [start : OrderLines, end : OrderLines]] : n \in 0..2} :
        Normalized(rs)}

InitOrder ==
    /\ NoSession
    /\ NoTasks
    /\ NoEditor
    /\ inp \in [S : NormalizedSets, d1 : Changes, d2 : Changes]
    /\ out = <<>>

\* The set the next call of adjustRanges receives.
Current == IF out = <<>> THEN inp.S ELSE out[Len(out)].set

Delta(k) == IF k = 1 THEN inp.d1 ELSE inp.d2

\* adjustRanges(current, delta k)
Deliver(k) ==
    /\ out' = Append(out, [delta |-> k, set |-> adjustRanges(Current, Delta(k))])
    /\ UNCHANGED <<inp, trackerVars, taskVars, editor>>

\* d1 first, then d2.
DeliverInOrder == Len(out) < 2 /\ Deliver(Len(out) + 1)

\* d2 first, then d1.
DeliverOutOfOrder ==
    \/ out = <<>> /\ Deliver(2)
    \/ Len(out) = 1 /\ out[1].delta = 2 /\ Deliver(1)

\* The delta delivered last is delivered again.
DeliverDuplicate == Len(out) = 1 /\ Deliver(out[1].delta)

NextOrder == DeliverInOrder \/ DeliverOutOfOrder \/ DeliverDuplicate

SpecOrder == InitOrder /\ [][NextOrder]_vars

Delivered == [i \in 1..Len(out) |-> out[i].delta]

\* Ordered delivery, each delta once.
AdjustOrdered == adjustRanges(adjustRanges(inp.S, inp.d1), inp.d2)

\* A pure insertion of at least one line on a line in front of every range.
InsertsBeforeAll(c, rs) ==
    /\ rs # <<>>
    /\ c.startLine = c.endLine
    /\ NewLineCount(c.text) > 0
    /\ c.endLine < rs[1].start

\* A deletion of exactly the lines in front of the first range.
DeletesUpToFirst(c, rs) ==
    /\ rs # <<>>
    /\ c.startLine = 0
    /\ c.endLine = rs[1].start
    /\ c.endLine > 0
    /\ NewLineCount(c.text) = 0

\* C14: adjustForEdit is neither commutative nor idempotent. Swapped
\* delivery differs from ordered delivery whenever d1 inserts lines at line 0
\* and d2 deletes the lines in front of the first range; duplicated delivery
\* differs from single delivery whenever the delta inserts lines in front of
\* every range.
C14_OrderAndCountMatter ==
    /\ (/\ Delivered = <<2, 1>>
        /\ InsertsBeforeAll(inp.d1, inp.S) /\ inp.d1.startLine = 0
        /\ DeletesUpToFirst(inp.d2, inp.S))
       => out[2].set # AdjustOrdered
    /\ (/\ Len(out) = 2 /\ out[1].delta = out[2].delta
        /\ InsertsBeforeAll(Delta(out[1].delta), inp.S))
       => out[2].set # out[1].set

\* Swapped delivery that ends in a set other than that of ordered delivery.
C14_Witness ==
    /\ Delivered = <<2, 1>>
    /\ InsertsBeforeAll(inp.d1, inp.S) /\ inp.d1.startLine = 0
    /\ DeletesUpToFirst(inp.d2, inp.S)
    /\ out[2].set # AdjustOrdered

\* Duplicated delivery that ends in a set other than that of single delivery.
C14_WitnessDuplicate ==
    /\ Delivered = <<1, 1>>
    /\ InsertsBeforeAll(inp.d1, inp.S)
    /\ out[2].set # out[1].set

\* ------------------------------------------------------ markdownDecorator
\* A line is a sequence of UTF-16 code units, each written as a string: the
\* character itself, or U+hhhh where a string cannot hold it (U+0060 is the
\* backtick).
\* Columns count from 0 as in vscode.Position.

\* The keys of decorationTypes: decorations.get(key) is undefined for any
\* other key and the optional push does nothing.
DecorationTypes ==
    {"h1-content", "h1-syntax", "h2-content", "h2-syntax", "h3-content",
     "h3-syntax", "h4-content", "h4-syntax", "h5-content", "h5-syntax",
     "h6-content", "h6-syntax", "bold-content", "bold-syntax",
     "italic-content", "italic-syntax", "strikethrough-content",
     "strikethrough-syntax", "underline-content", "underline-syntax",
     "code-content", "code-syntax", "link-text", "link-syntax", "link-url",
     "list-marker", "blockquote-marker", "blockquote-content", "hr",
     "task-emoji", "recurrence-text"}

\* decorations.get(kind)?.push({ range })
Decorate(kind, lineNo, from, to) ==
    IF kind \in DecorationTypes
    THEN <<[kind |-> kind, line |-> lineNo, from |-> from, to |-> to]>>
    ELSE <<>>

\* line[p], undefined outside the line
Ch(line, p) == IF p >= 0 /\ p < Len(line) THEN line[p + 1] ELSE "undefined"

\* the string s occurs in line at column p
HasAt(line, p, s) == \A k \in 1..Len(s) : Ch(line, p + k - 1) = s[k]

\* [^stop]* from column p, greedy: the column behind the run
RECURSIVE RunEnd(_, _, _)
RunEnd(line, p, stop) ==
    IF p >= Len(line) \/ line[p + 1] \in stop THEN p
    ELSE RunEnd(line, p + 1, stop)

\* [set]* from column p, greedy: the column behind the run
RECURSIVE SpanWhile(_, _, _)
SpanWhile(line, p, set) ==
    IF p >= Len(line) \/ line[p + 1] \notin set THEN p
    ELSE SpanWhile(line, p + 1, set)

\* \s
WhiteSpace == {" ", "\t"}

\* \d
Digits == {"0", "1", "2", "3", "4", "5", "6", "7", "8", "9"}

NoMatch == [index |-> -1, contentStart |-> -1, contentEnd |-> -1, end |-> -1]

\* open([^stop]+)close matched at column p, for the greedy run of content
\* from contentStart to contentEnd. The content class excludes the first
\* character of close, so the greedy run is the only candidate.
DelimitedRun(line, p, open, close, contentStart, contentEnd) ==
    IF /\ HasAt(line, p, open)
       /\ contentEnd > contentStart
       /\ HasAt(line, contentEnd, close)
    THEN [index |-> p, contentStart |-> contentStart,
          contentEnd |-> contentEnd, end |-> contentEnd + Len(close)]
    ELSE NoMatch

DelimitedAt(line, p, open, stop, close) ==
    DelimitedRun(line, p, open, close,
                 p + Len(open), RunEnd(line, p + Len(open), stop))

\* the first alternative that matches
FirstMatch(a, b) == IF a.index >= 0 THEN a ELSE b

\* while ((match = regex.exec(line)) !== null) for a /g regex created by the
\* call: at[p] is the match that starts at column p, the search resumes at
\* the end of each match.
RECURSIVE ExecAll(_, _, _)
ExecAll(at, p, n) ==
    IF p >= n THEN <<>>
    ELSE LET match == at[p]
         IN IF match.index >= 0
            THEN <<match>> \o ExecAll(at, match.end, n)
            ELSE ExecAll(at, p + 1, n)

RECURSIVE Concat(_)
Concat(lists) ==
    IF lists = <<>> THEN <<>> ELSE Head(lists) \o Concat(Tail(lists))

NoLink ==
    [index |-> -1, textStart |-> -1, textEnd |-> -1,
     urlStart |-> -1, urlEnd |-> -1, end |-> -1]

\* ([^)]+)\) behind the text part t of a link
LinkUrl(line, p, t, urlEnd) ==
    IF t.index >= 0 /\ urlEnd > t.end /\ Ch(line, urlEnd) = ")"
    THEN [index |-> p, textStart |-> p + 1, textEnd |-> t.contentEnd,
          urlStart |-> t.contentEnd + 2, urlEnd |-> urlEnd, end |-> urlEnd + 1]
    ELSE NoLink

LinkText(line, p, t) ==
    IF t.index >= 0 THEN LinkUrl(line, p, t, RunEnd(line, t.end, {")"})) ELSE NoLink

\* /\[([^\]]+)\]\(([^)]+)\)/g
LinkAt(line, p) ==
    LinkText(line, p, DelimitedAt(line, p, <<"[">>, {"]"}, <<"]", "(">>))

Links(line) ==
    ExecAll([p \in 0..(Len(line) - 1) |-> LinkAt(line, p)], 0, Len(line))

\* excludedRanges.push({start: fullStart, end: fullEnd})
ExcludedRanges(links) ==
    [i \in 1..Len(links) |-> [start |-> links[i].index, end |-> links[i].end]]

LinkSpans(lineNo, m) ==
    Decorate("link-syntax", lineNo, m.index, m.textStart)
    \o Decorate("link-text", lineNo, m.textStart, m.textEnd)
    \o Decorate("link-syntax", lineNo, m.textEnd, m.urlStart)
    \o Decorate("link-url", lineNo, m.urlStart, m.urlEnd)
    \o Decorate("link-syntax", lineNo, m.urlEnd, m.end)

\* isExcluded(start, end)
isExcludedNever(excludedRanges, start, end) == FALSE

isExcluded(excludedRanges, start, end) ==
    \E i \in 1..Len(excludedRanges) :
        LET excluded == excludedRanges[i]
        IN \/ start >= excluded.start /\ start < excluded.end
           \/ end > excluded.start /\ end <= excluded.end
           \/ start <= excluded.start /\ end >= excluded.end

\* /(\*\*|__)([^*_]+)\1/g
BoldAt(line, p) ==
    FirstMatch(DelimitedAt(line, p, <<"*", "*">>, {"*", "_"}, <<"*", "*">>),
               DelimitedAt(line, p, <<"_", "_">>, {"*", "_"}, <<"_", "_">>))

BoldMatches(line) ==
    ExecAll([p \in 0..(Len(line) - 1) |-> BoldAt(line, p)], 0, Len(line))

\* (?<!c)c(?!c)([^c]+)c(?!c)
Lookarounds(line, p, c, m) ==
    IF /\ m.index >= 0
       /\ Ch(line, p - 1) # c
       /\ Ch(line, p + 1) # c
       /\ Ch(line, m.end) # c
    THEN m ELSE NoMatch

EmphasisAt(line, p, c) ==
    Lookarounds(line, p, c, DelimitedAt(line, p, <<c>>, {c}, <<c>>))

\* /(?<!\*)\*(?!\*)([^*]+)\*(?!\*)|(?<!_)_(?!_)([^_]+)_(?!_)/g
ItalicAt(line, p) ==
    FirstMatch(EmphasisAt(line, p, "*"), EmphasisAt(line, p, "_"))

ItalicMatches(line) ==
    ExecAll([p \in 0..(Len(line) - 1) |-> ItalicAt(line, p)], 0, Len(line))

\* /~~([^~]+)~~/g
StrikeMatches(line) ==
    ExecAll([p \in 0..(Len(line) - 1) |->
                DelimitedAt(line, p, <<"~", "~">>, {"~"}, <<"~", "~">>)],
            0, Len(line))

\* /<u>([^<]+)<\/u>/g
UnderlineMatches(line) ==
    ExecAll([p \in 0..(Len(line) - 1) |->
                DelimitedAt(line, p, <<"<", "u", ">">>, {"<"}, <<"<", "/", "u", ">">>)],
            0, Len(line))

\* the inline code regex: backtick ([^backtick]+) backtick, /g
CodeMatches(line) ==
    ExecAll([p \in 0..(Len(line) - 1) |->
                DelimitedAt(line, p, <<"U+0060">>, {"U+0060"}, <<"U+0060">>)],
            0, Len(line))

\* opening syntax, content, closing syntax of one match
WrapSpans(name, lineNo, m) ==
    Decorate(name \o "-syntax", lineNo, m.index, m.contentStart)
    \o Decorate(name \o "-content", lineNo, m.contentStart, m.contentEnd)
    \o Decorate(name \o "-syntax", lineNo, m.contentEnd, m.end)

\* The matches of one regex that are decorated: with filtered set, those for
\* which isExcluded(fullStart, fullEnd) is false.
Kept(matches, excludedRanges, filtered) ==
    SelectSeq(matches,
              LAMBDA m : ~(filtered /\ isExcluded(excludedRanges, m.index, m.end)))

AllWrapSpans(name, lineNo, matches) ==
    Concat([i \in 1..Len(matches) |-> WrapSpans(name, lineNo, matches[i])])

\* The literal of dateEmojiRegex as the source file holds it.
DateGlyph == <<"U+F8FF", "U+00FC", "U+00EC", "U+00D6">>

\* /<date glyph>/g : task-emoji from emojiPos to emojiPos + 1
DateMatches(line) ==
    ExecAll([p \in 0..(Len(line) - 1) |->
                IF HasAt(line, p, DateGlyph)
                THEN [index |-> p, contentStart |-> p, contentEnd |-> p,
                      end |-> p + Len(DateGlyph)]
                ELSE NoMatch],
            0, Len(line))

DateSpans(lineNo, matches) ==
    Concat([i \in 1..Len(matches) |->
               Decorate("task-emoji", lineNo, matches[i].index, matches[i].index + 1)])

\* The literal that opens METADATA_PATTERNS.recurrence as the source file
\* holds it, and the characters of its lookahead class.
RecurrenceGlyph == <<"U+011F", "U+0178", "U+201D">>

MetadataClass ==
    {"U+011F", "U+0178", "U+201D", "U+201C", "U+2026", "U+00B7", "U+00EF",
     "U+00B8", "U+00E2", "U+00AB", "U+00AC", "U+00BC", "U+00BD"}

\* (?=\s*[class]|\s*$) at column p
RecurrenceLookahead(line, p) ==
    LET q == SpanWhile(line, p, WhiteSpace)
    IN q = Len(line) \/ Ch(line, q) \in MetadataClass

\* (.+?) from column p: the shortest non-empty content the lookahead accepts
RECURSIVE LazyEnd(_, _)
LazyEnd(line, p) ==
    IF p >= Len(line) \/ RecurrenceLookahead(line, p) THEN p
    ELSE LazyEnd(line, p + 1)

\* \uFE0F? at column p, greedy: the column behind it
AfterSelector(line, p) == IF Ch(line, p) = "U+FE0F" THEN p + 1 ELSE p

\* (.+?)(?=...) from contentStart on
RecurrenceContent(line, p, afterGlyph, contentStart, contentEnd) ==
    IF contentStart >= afterGlyph
    THEN [index |-> p, contentStart |-> contentStart,
          contentEnd |-> contentEnd, end |-> contentEnd]
    ELSE NoMatch

\* The optional selector and the white space are taken greedily up to
\* afterSpace; when they reach the end of the line the last of them is given
\* back to be the content.
RecurrenceBehind(line, p, afterGlyph, afterSpace) ==
    IF afterSpace < Len(line)
    THEN RecurrenceContent(line, p, afterGlyph, afterSpace, LazyEnd(line, afterSpace + 1))
    ELSE RecurrenceContent(line, p, afterGlyph, afterSpace - 1, afterSpace)

\* glyph \uFE0F? \s* (.+?) (?=...) matched at column p
RecurrenceAt(line, p) ==
    IF HasAt(line, p, RecurrenceGlyph)
    THEN RecurrenceBehind(line, p, p + Len(RecurrenceGlyph),
             SpanWhile(line, AfterSelector(line, p + Len(RecurrenceGlyph)), WhiteSpace))
    ELSE NoMatch

\* The first match at or behind column from.
RECURSIVE RecurrenceFrom(_, _)
RecurrenceFrom(line, from) ==
    IF from >= Len(line) THEN NoMatch
    ELSE FirstMatch(RecurrenceAt(line, from), RecurrenceFrom(line, from + 1))

\* The flags of the literal METADATA_PATTERNS.recurrence.
FlagsWithGlobal == {"g"}

RecurrenceFlags == {}

\* The result of exec and lastIndex behind it: with the g flag lastIndex is
\* left behind the match (0 when there is none), without it lastIndex stays.
ExecResult(global, match, lastIndex) ==
    [match |-> match,
     lastIndex |-> IF ~global THEN lastIndex
                   ELSE IF match.index >= 0 THEN match.end ELSE 0]

\* METADATA_PATTERNS.recurrence.exec(line) on the one regex object the module
\* exports: with the g flag the search starts at lastIndex, without it at 0.
RecurrenceExec(line, lastIndex) ==
    ExecResult("g" \in RecurrenceFlags,
               RecurrenceFrom(line, IF "g" \in RecurrenceFlags THEN lastIndex ELSE 0),
               lastIndex)

RecurrenceSpans(lineNo, match) ==
    IF match.index < 0 THEN <<>>
    ELSE Decorate("task-emoji", lineNo, match.index, match.contentStart)
         \o Decorate("recurrence-text", lineNo, match.contentStart, match.end)

\* The pushes of parseInlineFormatting in their order, for the links of the
\* line and the result of the recurrence exec.
InlineSpans(lineNo, line, links, recurrence) ==
    [spans |->
        Concat([i \in 1..Len(links) |-> LinkSpans(lineNo, links[i])])
        \o AllWrapSpans("bold", lineNo, Kept(BoldMatches(line), ExcludedRanges(links), TRUE))
        \o AllWrapSpans("italic", lineNo, Kept(ItalicMatches(line), ExcludedRanges(links), TRUE))
        \o AllWrapSpans("strikethrough", lineNo, StrikeMatches(line))
        \o AllWrapSpans("underline", lineNo, UnderlineMatches(line))
        \o AllWrapSpans("code", lineNo, CodeMatches(line))
        \o DateSpans(lineNo, DateMatches(line))
        \o RecurrenceSpans(lineNo, recurrence.match),
     lastIndex |-> recurrence.lastIndex]

\* parseInlineFormatting(lineStart, line, decorations): the spans pushed, in
\* the order of the pushes, and lastIndex of the shared regex afterwards.
parseInlineFormatting(lineNo, line, lastIndex) ==
    InlineSpans(lineNo, line, Links(line), RecurrenceExec(line, lastIndex))

\* (A fence test that accepts only a line of exactly three backticks.)
IsFenceOnly(line) == line = <<"U+0060", "U+0060", "U+0060">>

\* line.match of a fence: three backticks at the start of the line
IsFence(line) == HasAt(line, 0, <<"U+0060", "U+0060", "U+0060">>)

\* line.match(/^(#{1,6})\s+(.+)$/): the heading level, 0 when there is no match
HeadingOf(line, level) ==
    IF /\ level >= 1 /\ level <= 6
       /\ Ch(line, level) \in WhiteSpace
       /\ Len(line) >= level + 2
    THEN level ELSE 0

HeadingLevel(line) == HeadingOf(line, SpanWhile(line, 0, {"#"}))

HeadingKinds ==
    <<"h1", "h2", "h3", "h4", "h5", "h6">>

\* line.match(/^(-{3,}|\*{3,}|_{3,})$/)
IsRule(line) ==
    /\ Len(line) >= 3
    /\ line[1] \in {"-", "*", "_"}
    /\ \A i \in 1..Len(line) : line[i] = line[1]

\* line.match(/^>\s?(.*)$/)
IsBlockquote(line) == Ch(line, 0) = ">"

BlockquoteSpans(lineNo, line) ==
    LET markerEnd == 1 + (IF Ch(line, 1) = " " THEN 1 ELSE 0)
        contentFrom == 1 + (IF Ch(line, 1) \in WhiteSpace THEN 1 ELSE 0)
    IN Decorate("blockquote-marker", lineNo, 0, markerEnd)
       \o (IF Len(line) > contentFrom
           THEN Decorate("blockquote-content", lineNo, markerEnd, Len(line))
           ELSE <<>>)

NoTask == [matched |-> FALSE, markerStart |-> -1, markerEnd |-> -1, done |-> FALSE]

\* \[([ xX])\]\s+ at column box, the white space ending at markerEnd
TaskBox(line, markerStart, box, markerEnd) ==
    IF /\ Ch(line, box) = "["
       /\ Ch(line, box + 1) \in {" ", "x", "X"}
       /\ Ch(line, box + 2) = "]"
       /\ markerEnd > box + 3
    THEN [matched |-> TRUE, markerStart |-> markerStart, markerEnd |-> markerEnd,
          done |-> Ch(line, box + 1) \in {"x", "X"}]
    ELSE NoTask

\* ([-*+])\s+ at column markerStart, the white space ending at box
TaskBullet(line, markerStart, box) ==
    IF Ch(line, markerStart) \in {"-", "*", "+"} /\ box > markerStart + 1
    THEN TaskBox(line, markerStart, box, SpanWhile(line, box + 3, WhiteSpace))
    ELSE NoTask

TaskFrom(line, markerStart) ==
    TaskBullet(line, markerStart, SpanWhile(line, markerStart + 1, WhiteSpace))

\* line.match(/^(\s*)([-*+])\s+\[([ xX])\]\s+/)
TaskMatch(line) == TaskFrom(line, SpanWhile(line, 0, WhiteSpace))

\* list-marker for a bullet or number of bulletLength characters
ListMarker(lineNo, line, markerStart, bulletLength) ==
    IF bulletLength > 0 /\ Ch(line, markerStart + bulletLength) \in WhiteSpace
    THEN Decorate("list-marker", lineNo, markerStart, markerStart + bulletLength + 1)
    ELSE <<>>

\* ([-*+]|\d+\.) at column markerStart, the digits ending at digitsEnd
ListBullet(lineNo, line, markerStart, digitsEnd) ==
    ListMarker(lineNo, line, markerStart,
               IF Ch(line, markerStart) \in {"-", "*", "+"} THEN 1
               ELSE IF digitsEnd > markerStart /\ Ch(line, digitsEnd) = "."
               THEN digitsEnd - markerStart + 1
               ELSE 0)

ListFrom(lineNo, line, markerStart) ==
    ListBullet(lineNo, line, markerStart, SpanWhile(line, markerStart, Digits))

\* line.match(/^(\s*)([-*+]|\d+\.)\s/)
ListSpans(lineNo, line) == ListFrom(lineNo, line, SpanWhile(line, 0, WhiteSpace))

\* (A task branch that does not continue and so reaches the list branch.)
TaskSpansThenList(lineNo, line, task) ==
    Decorate("list-marker", lineNo, task.markerStart, task.markerEnd)
    \o (IF task.done
        THEN Decorate("strikethrough-content", lineNo, task.markerEnd, Len(line))
        ELSE <<>>)
    \o ListSpans(lineNo, line)

\* list-marker over the task marker and, for a task that is done,
\* strikethrough-content over the rest of the line
TaskSpans(lineNo, line, task) ==
    Decorate("list-marker", lineNo, task.markerStart, task.markerEnd)
    \o (IF task.done
        THEN Decorate("strikethrough-content", lineNo, task.markerEnd, Len(line))
        ELSE <<>>)

\* One iteration of the loop of parseAndDecorate on line i (counted from 0),
\* for the heading level, the task match and the inline pass of the line.
LineSpans(lineNo, line, inCodeBlock, lastIndex, level, task, inline) ==
    IF IsFence(line)
    THEN [spans |-> Decorate("codeblock-fence", lineNo, 0, Len(line)),
          inCodeBlock |-> ~inCodeBlock, lastIndex |-> lastIndex]
    ELSE IF inCodeBlock
    THEN [spans |-> Decorate("codeblock-content", lineNo, 0, Len(line)),
          inCodeBlock |-> TRUE, lastIndex |-> lastIndex]
    ELSE IF level > 0
    THEN [spans |-> Decorate(HeadingKinds[level] \o "-syntax", lineNo, 0, level + 1)
                    \o Decorate(HeadingKinds[level] \o "-content", lineNo, level + 1, Len(line)),
          inCodeBlock |-> FALSE, lastIndex |-> lastIndex]
    ELSE IF IsRule(line)
    THEN [spans |-> Decorate("hr", lineNo, 0, Len(line)),
          inCodeBlock |-> FALSE, lastIndex |-> lastIndex]
    ELSE [spans |->
             (IF IsBlockquote(line) THEN BlockquoteSpans(lineNo, line) ELSE <<>>)
             \o (IF task.matched THEN TaskSpans(lineNo, line, task)
                 ELSE ListSpans(lineNo, line))
             \o inline.spans,
          inCodeBlock |-> FALSE, lastIndex |-> inline.lastIndex]

ParseLine(lineNo, line, inCodeBlock, lastIndex) ==
    LineSpans(lineNo, line, inCodeBlock, lastIndex, HeadingLevel(line),
              TaskMatch(line), parseInlineFormatting(lineNo, line, lastIndex))

\* text.split at line feeds, the first of them at column first
RECURSIVE Split(_)
SplitAt(text, first) ==
    IF first >= Len(text) THEN <<text>>
    ELSE <<SubSeq(text, 1, first)>> \o Split(SubSeq(text, first + 2, Len(text)))

Split(text) == SplitAt(text, RunEnd(text, 0, {"\n"}))

\* The spans of a line followed by those of the lines behind it.
ThenRest(this, rest) ==
    [spans |-> this.spans \o rest.spans, lastIndex |-> rest.lastIndex]

\* The for loop of parseAndDecorate from line i on.
RECURSIVE ParseLines(_, _, _, _)
ParseFrom(lines, i, this) ==
    ThenRest(this, ParseLines(lines, i + 1, this.inCodeBlock, this.lastIndex))

ParseLines(lines, i, inCodeBlock, lastIndex) ==
    IF i >= Len(lines) THEN [spans |-> <<>>, lastIndex |-> lastIndex]
    ELSE ParseFrom(lines, i, ParseLine(i, lines[i + 1], inCodeBlock, lastIndex))

\* parseAndDecorate(document, text, decorations) with the shared regex in
\* state lastIndex: the spans of the pass and lastIndex afterwards.
parseAndDecorate(text, lastIndex) == ParseLines(Split(text), 0, FALSE, lastIndex)

\* ------------------------------------------------------------------ C16
\* One pass over a one-line document made of a few pieces of Markdown.
MaxSpanTokens == 5

SpanTokens ==
    {<<"U+0060">>, <<"*">>, <<"a">>, <<">", " ">>, <<"-", " ", "[", "x", "]", " ">>}

TokenLists(tokens, n) == UNION {[1..k -> tokens] : k \in 0..n}

SpanLines == {Concat(ts) : ts \in TokenLists(SpanTokens, MaxSpanTokens)}

InitSpans == NoSession /\ NoTasks /\ NoEditor /\ inp \in SpanLines /\ out = <<>>

\* parseAndDecorate on the document, all regex objects fresh.
ParsePass ==
    /\ out = <<>>
    /\ out' = <<parseAndDecorate(inp, 0).spans>>
    /\ UNCHANGED <<inp, trackerVars, taskVars, editor>>

NextParse == ParsePass

SpecSpans == InitSpans /\ [][NextParse]_vars

\* Two spans cover a common character position of the same line.
Overlap(a, b) == a.line = b.line /\ a.from < b.to /\ b.from < a.to

\* C16: the span list of one parse call is non-overlapping: no two spans of
\* the pass cover a common character position of the same line.
C16_SpansDoNotOverlap ==
    out # <<>> =>
        \A i \in 1..Len(out[1]) : \A j \in 1..Len(out[1]) :
            i < j => ~Overlap(out[1][i], out[1][j])

\* ------------------------------------------------------------------ C17
\* One pass over a one-line document made of pieces of links and emphasis.
MaxLinkTokens == 5

LinkTokens ==
    {<<"*">>, <<"_">>, <<"[">>, <<"]", "(", "a", ")">>,
     <<"[", "a", "]", "(">>, <<")">>}

LinkLines == {Concat(ts) : ts \in TokenLists(LinkTokens, MaxLinkTokens)}

InitLinks == NoSession /\ NoTasks /\ NoEditor /\ inp \in LinkLines /\ out = <<>>

SpecLinks == InitLinks /\ [][NextParse]_vars

\* The full range of match m intersects the full range of a link of line.
IntersectsLink(line, m) ==
    LET links == Links(line)
    IN \E i \in 1..Len(links) : m.index < links[i].end /\ links[i].index < m.end

\* No span of one of the kinds lies in the range of match m.
EmitsNothing(spans, kinds, m) ==
    \A i \in 1..Len(spans) :
        ~(spans[i].kind \in kinds /\ m.index <= spans[i].from /\ spans[i].to <= m.end)

\* The line is one link construct and nothing else.
IsOneLink(line) ==
    Len(Links(line)) = 1 /\ Links(line)[1].index = 0 /\ Links(line)[1].end = Len(line)

Kinds(spans) == [i \in 1..Len(spans) |-> spans[i].kind]

\* C17: a bold or italic match whose full column range intersects the full
\* range of a link emits no spans, and a line that consists of one link
\* yields exactly link-syntax, link-text, link-syntax, link-url, link-syntax,
\* whatever * and _ characters its text and URL hold.
C17_LinkExcludesEmphasis ==
    out # <<>> =>
        LET bold == BoldMatches(inp)
            italic == ItalicMatches(inp)
        IN /\ \A i \in 1..Len(bold) :
                 IntersectsLink(inp, bold[i])
                 => EmitsNothing(out[1], {"bold-syntax", "bold-content"}, bold[i])
           /\ \A i \in 1..Len(italic) :
                 IntersectsLink(inp, italic[i])
                 => EmitsNothing(out[1], {"italic-syntax", "italic-content"}, italic[i])
           /\ IsOneLink(inp)
                 => Kinds(out[1]) = <<"link-syntax", "link-text", "link-syntax",
                                      "link-url", "link-syntax">>

\* A line that is one link whose text holds an italic match.
C17_Witness ==
    /\ out # <<>>
    /\ IsOneLink(inp)
    /\ \E i \in 1..Len(ItalicMatches(inp)) :
          /\ ItalicMatches(inp)[i].index >= Links(inp)[1].textStart
          /\ ItalicMatches(inp)[i].end <= Links(inp)[1].textEnd
    /\ Len(out[1]) = 5

\* ---------------------------------------------------------- C15 and C19
\* The active editor of a Markdown document: text is typed at its end, the
\* editor is activated again, and markovia.enableWYSIWYG is switched. out
\* records the last two parse passes, each with the text it read.
MaxDocLength == 5

EditorTokens == {RecurrenceGlyph, <<"a">>, <<"*">>, <<"\n">>}

InitEditor == NoSession /\ NoTasks /\ NoEditor /\ inp = <<>> /\ out = <<>>

\* editor.setDecorations for every type, with the spans of the pass
SetDecorations(ed, pass) ==
    [ed EXCEPT !.decorations = pass.spans, !.lastIndex = pass.lastIndex]

\* MarkdownDecorator.updateDecorations(editor): one parse pass, its spans
\* replace the decorations of every type.
DecoratorUpdate(ed) == SetDecorations(ed, parseAndDecorate(ed.text, ed.lastIndex))

\* updateDecorations(editor) of the extension
updateDecorations(ed) ==
    IF ed.enableWYSIWYG THEN DecoratorUpdate(ed) ELSE ed

LastTwo(passes) ==
    IF Len(passes) <= 2 THEN passes ELSE SubSeq(passes, Len(passes) - 1, Len(passes))

\* The passes on record after updateDecorations has turned ed into after.
Recorded(ed, after) ==
    IF ed.enableWYSIWYG
    THEN LastTwo(Append(out, [text |-> after.text, spans |-> after.decorations]))
    ELSE out

\* onDidChangeTextDocument
ChangeTextDocument(typed) ==
    LET ed == [editor EXCEPT !.text = editor.text \o typed]
    IN /\ Len(editor.text) + Len(typed) <= MaxDocLength
       /\ editor' = updateDecorations(ed)
       /\ out' = Recorded(ed, editor')
       /\ UNCHANGED <<inp, trackerVars, taskVars>>

\* onDidChangeActiveTextEditor
ChangeActiveTextEditor ==
    /\ editor' = updateDecorations(editor)
    /\ out' = Recorded(editor, editor')
    /\ UNCHANGED <<inp, trackerVars, taskVars>>

\* onDidChangeConfiguration for markovia.enableWYSIWYG
ChangeConfiguration ==
    LET ed == [editor EXCEPT !.enableWYSIWYG = ~editor.enableWYSIWYG]
    IN /\ editor' = updateDecorations(ed)
       /\ out' = Recorded(ed, editor')
       /\ UNCHANGED <<inp, trackerVars, taskVars>>

NextEditor ==
    \/ \E typed \in EditorTokens : ChangeTextDocument(typed)
    \/ ChangeActiveTextEditor
    \/ ChangeConfiguration

SpecEditor == InitEditor /\ [][NextEditor]_vars

\* C15: parse is a function of the text alone: two passes over the same text
\* produce the same span list in the same order, whatever passes ran before
\* them; each pass produces what a pass with every regex object in its
\* initial state produces.
C15_ParseIsDeterministic ==
    /\ \A i \in 1..Len(out) : \A j \in 1..Len(out) :
          out[i].text = out[j].text => out[i].spans = out[j].spans
    /\ \A i \in 1..Len(out) : out[i].spans = parseAndDecorate(out[i].text, 0).spans

\* Two passes over the same text, which holds a recurrence and an emphasis.
C15_Witness ==
    /\ Len(out) = 2
    /\ out[1].text = out[2].text
    /\ \E i \in 1..Len(out[2].spans) : out[2].spans[i].kind = "recurrence-text"
    /\ \E i \in 1..Len(out[2].spans) : out[2].spans[i].kind = "italic-content"
    /\ out[1].spans = out[2].spans

\* C19: while markovia.enableWYSIWYG is false the active editor carries no
\* span decorations: those applied before are removed when the setting
\* changes to false, and later edits add none.
C19_DisabledMeansUndecorated ==
    ~editor.enableWYSIWYG => editor.decorations = <<>>

\* ------------------------------------------------------------------ C18
\* frontmatterParser.ts: the frontmatter block of a document and the
\* authorship entry in it. A document is a sequence of lines; a line is a
\* record of its parts: a delimiter line (--- with white space around it), a
\* line of text, or a line of YAML "key: value" with its indentation and its
\* leading dash. The empty string is the empty sequence of lines. A parsed
\* object is the sequence of its fields in insertion order.

MaxSaveLine == 2

MaxFields == 2

Delimiter ==
    [kind |-> "delimiter", indent |-> 0, dash |-> FALSE, key |-> "",
     form |-> "", scalar |-> "", num |-> 0]

TextLine ==
    [kind |-> "text", indent |-> 0, dash |-> FALSE, key |-> "",
     form |-> "", scalar |-> "", num |-> 0]

\* "key: scalar", "key: number", "key:" before a nested block, "key: []"
Entry(indent, dash, key, form, scalar, num) ==
    [kind |-> "entry", indent |-> indent, dash |-> dash, key |-> key,
     form |-> form, scalar |-> scalar, num |-> num]

EmptyString == <<>>

ScalarField(key, scalar) ==
    [key |-> key, mapping |-> FALSE, scalar |-> scalar, external |-> <<>>]

\* { authorship: { external: [...] } } as one field
AuthorshipField(data) ==
    [key |-> "authorship", mapping |-> TRUE, scalar |-> "", external |-> data.external]

\* yaml.dump of one LineRange inside a list indented by four
DumpRange(r) ==
    <<Entry(4, TRUE, "start", "number", "", r.start),
      Entry(6, FALSE, "end", "number", "", r.end)>>

\* yaml.dump of the member external of an authorship object
DumpExternal(external) ==
    IF external = <<>>
    THEN <<Entry(2, FALSE, "external", "empty-list", "", 0)>>
    ELSE <<Entry(2, FALSE, "external", "mapping", "", 0)>>
         \o Concat([i \in 1..Len(external) |-> DumpRange(external[i])])

DumpField(f) ==
    IF f.mapping
    THEN <<Entry(0, FALSE, f.key, "mapping", "", 0)>> \o DumpExternal(f.external)
    ELSE <<Entry(0, FALSE, f.key, "scalar", f.scalar, 0)>>

\* yaml.dump(obj, {indent: 2, lineWidth: -1, noRefs: true}): the fields in
\* their order, each on its lines
Dump(data) == Concat([i \in 1..Len(data) |-> DumpField(data[i])])

Indices(n) == [i \in 1..n |-> i]

\* the lines of the list under "external:", from line from up to the next
\* line that is indented less
LoadRanges(lines, at) ==
    [i \in 1..Len(at) |->
        [start |-> lines[at[i]].num, end |-> lines[at[i] + 1].num]]

RECURSIVE BlockEnd(_, _)
BlockEnd(lines, i) ==
    IF i > Len(lines) \/ lines[i].indent = 0 THEN i ELSE BlockEnd(lines, i + 1)

LoadExternal(lines, from, to) ==
    LoadRanges(lines,
               SelectSeq(Indices(Len(lines)),
                         LAMBDA j : j >= from /\ j < to /\ lines[j].dash))

LoadField(lines, i) ==
    IF lines[i].form = "scalar"
    THEN ScalarField(lines[i].key, lines[i].scalar)
    ELSE [key |-> lines[i].key, mapping |-> TRUE, scalar |-> "",
          external |-> LoadExternal(lines, i + 1, BlockEnd(lines, i + 1))]

LoadFields(lines, tops) == [i \in 1..Len(tops) |-> LoadField(lines, tops[i])]

\* yaml.load(yamlContent) || {}: one field for every line that is not indented
Load(lines) ==
    LoadFields(lines, SelectSeq(Indices(Len(lines)), LAMBDA i : lines[i].indent = 0))

NoFrontmatter == [found |-> FALSE, data |-> <<>>, contentStartLine |-> 0]

\* the first line from i on that is a delimiter, counted from 0; -1 if none
RECURSIVE ClosingDelimiter(_, _)
ClosingDelimiter(lines, i) ==
    IF i >= Len(lines) THEN -1
    ELSE IF lines[i + 1].kind = "delimiter" THEN i
    ELSE ClosingDelimiter(lines, i + 1)

Extracted(lines, endLine) ==
    IF endLine = -1 THEN NoFrontmatter
    ELSE [found |-> TRUE, data |-> Load(SubSeq(lines, 2, endLine)),
          contentStartLine |-> endLine + 1]

extractFrontmatter(document) ==
    IF Len(document) < 3 \/ document[1].kind # "delimiter"
    THEN NoFrontmatter
    ELSE Extracted(document, ClosingDelimiter(document, 1))

serializeAuthorship(data) ==
    IF Len(data.external) = 0 THEN EmptyString
    ELSE Dump(<<AuthorshipField(data)>>)

StartFromEmpty(existing) == <<>>

\* existing ? { ...existing.data } : {}
ExistingData(existing) == IF existing.found THEN existing.data ELSE <<>>

HasField(data, key) == \E i \in 1..Len(data) : data[i].key = key

\* obj[key] = value: in place when the key exists, behind the last key
\* otherwise
SetField(data, f) ==
    IF HasField(data, f.key)
    THEN [i \in 1..Len(data) |-> IF data[i].key = f.key THEN f ELSE data[i]]
    ELSE Append(data, f)

\* delete obj[key]
DeleteField(data, key) == SelectSeq(data, LAMBDA f : f.key # key)

Block(frontmatterData) ==
    IF Len(frontmatterData) = 0 THEN EmptyString
    ELSE <<Delimiter>> \o Dump(frontmatterData) \o <<Delimiter>>

WithAuthorship(frontmatterData, authorship) ==
    IF Len(authorship.external) > 0
    THEN SetField(frontmatterData, AuthorshipField(authorship))
    ELSE DeleteField(frontmatterData, "authorship")

updateFrontmatter(document, authorship) ==
    Block(WithAuthorship(ExistingData(extractFrontmatter(document)), authorship))

SaveLines == 0..MaxSaveLine

\* the sets the range tracker can hold
SaveSets ==
    {rs \in UNION {[1..n -> [start : SaveLines, end : SaveLines]] : n \in 0..2} :
        Normalized(rs)}

FieldChoices ==
    {ScalarField("title", "a"), ScalarField("draft", "b")}
    \cup {AuthorshipField([external |-> rs]) : rs \in SaveSets}

FieldLists ==
    {fs \in UNION {[1..n -> FieldChoices] : n \in 0..MaxFields} :
        \A i, j \in 1..Len(fs) : fs[i].key = fs[j].key => i = j}

\* Documents with the fields their frontmatter holds: a block of the fields
\* followed by text; text alone; a block that is never closed; two delimiters
\* and nothing else.
Documents ==
    {[fields |-> fs, document |-> Block(fs) \o <<TextLine>>] : fs \in FieldLists \ {<<>>}}
    \cup {[fields |-> <<>>, document |-> doc] :
            doc \in {<<Delimiter, Delimiter, TextLine>>,
                     <<TextLine>>,
                     <<Delimiter, Entry(0, FALSE, "title", "scalar", "a", 0), TextLine>>,
                     <<Delimiter, Delimiter>>}}

InitSave ==
    /\ NoSession
    /\ NoTasks
    /\ NoEditor
    /\ \E doc \in Documents, rs \in SaveSets :
          inp = [fields |-> doc.fields, document |-> doc.document,
                 authorship |-> [external |-> rs]]
    /\ out = <<>>

Serialize ==
    /\ out = <<>>
    /\ out' = <<[op |-> "serializeAuthorship",
                 text |-> serializeAuthorship(inp.authorship)]>>
    /\ UNCHANGED <<inp, trackerVars, taskVars, editor>>

Update ==
    /\ out = <<>>
    /\ out' = <<[op |-> "updateFrontmatter",
                 text |-> updateFrontmatter(inp.document, inp.authorship)]>>
    /\ UNCHANGED <<inp, trackerVars, taskVars, editor>>

NextSave == Serialize \/ Update

SpecSave == InitSave /\ [][NextSave]_vars

\* the fields a returned block holds when it is read back
Written(text) ==
    IF text = EmptyString THEN <<>> ELSE Load(SubSeq(text, 2, Len(text) - 1))

Others(data) == SelectSeq(data, LAMBDA f : f.key # "authorship")

WritesSet(written, set) ==
    /\ HasField(written, "authorship") <=> set # <<>>
    /\ \A i \in 1..Len(written) :
          written[i].key = "authorship" =>
              written[i].mapping /\ written[i].external = set

\* C18: updateFrontmatter returns a block with an authorship entry exactly
\* when the set is non-empty, the entry then lists the ranges of the set as
\* start and end pairs in the order of the set, and every other field of the
\* old block is in the new one with its value and in its place;
\* serializeAuthorship returns the empty string exactly for the empty set and
\* otherwise the same list.
C18_SaveWritesSet ==
    out # <<>> =>
        /\ out[1].op = "serializeAuthorship" =>
              /\ out[1].text = EmptyString <=> inp.authorship.external = <<>>
              /\ inp.authorship.external # <<>> =>
                    Load(out[1].text) = <<AuthorshipField(inp.authorship)>>
        /\ out[1].op = "updateFrontmatter" =>
              /\ WritesSet(Written(out[1].text), inp.authorship.external)
              /\ Others(Written(out[1].text)) = Others(inp.fields)
              /\ out[1].text # EmptyString =>
                    /\ out[1].text[1] = Delimiter
                    /\ out[1].text[Len(out[1].text)] = Delimiter

C18_Witness ==
    /\ out # <<>>
    /\ out[1].op = "updateFrontmatter"
    /\ Len(inp.authorship.external) = 2
    /\ Len(inp.fields) = 2
    /\ inp.fields[1].key = "authorship"
    /\ inp.fields[1].external # inp.authorship.external
    /\ inp.fields[2].key = "title"
    /\ Len(out[1].text) = 9

C18_WitnessEmpty ==
    /\ out # <<>>
    /\ out[1].op = "updateFrontmatter"
    /\ inp.authorship.external = <<>>
    /\ HasField(inp.fields, "authorship")
    /\ out[1].text = EmptyString

\* ------------------------------------------------------------------ C20
\* extension.ts: wrapSelection behind the five toggle commands. The text of
\* the document is its sequence of characters, lines ending at line feeds;
\* positions are a line and a character, both counted from 0.

MaxWrapLength == 4

MaxCalls == 2

WrapChars == {"a", "*", "\n"}

Clamp(n, low, high) == IF n < low THEN low ELSE IF n > high THEN high ELSE n

Position(line, character) == [line |-> line, character |-> character]

\* the offset at which line begins
RECURSIVE LineStart(_, _)
LineStart(lines, line) ==
    IF line = 0 THEN 0 ELSE LineStart(lines, line - 1) + Len(lines[line]) + 1

\* document.offsetAt(position) of a position on a line of the document: a
\* character behind the end of the line is taken as the end of the line
OffsetIn(lines, position) ==
    LineStart(lines, position.line)
    + Clamp(position.character, 0, Len(lines[position.line + 1]))

offsetAt(text, position) == OffsetIn(Split(text), position)

LineOf(text, offset) ==
    Cardinality({i \in 1..offset : text[i] = "\n"})

OnLine(lines, line, offset) == Position(line, offset - LineStart(lines, line))

\* document.positionAt(offset)
positionAt(text, offset) == OnLine(Split(text), LineOf(text, offset), offset)

\* the document with text newText and the selection between two offsets of it
Selected(ed, newText, from, to) ==
    [ed EXCEPT !.text = newText,
               !.selection = [start |-> positionAt(newText, from),
                              end |-> positionAt(newText, to)]]

startsWith(s, prefix) == HasAt(s, 0, prefix)

endsWith(s, suffix) ==
    Len(s) >= Len(suffix) /\ HasAt(s, Len(s) - Len(suffix), suffix)

\* The two deletions of the unwrap branch, between offsets from1..to1 and
\* from2..to2; the selection stays on the text it held.
Deleted(ed, from1, to1, from2, to2) ==
    Selected(ed,
             SubSeq(ed.text, 1, from1) \o SubSeq(ed.text, to1 + 1, from2)
                 \o SubSeq(ed.text, to2 + 1, Len(ed.text)),
             from1, from2 - (to1 - from1))

\* new vscode.Position with a negative character throws inside the callback
\* of editor.edit and no edit is made.
Unwrap(ed, before, after) ==
    IF ed.selection.start.character - Len(before) < 0 THEN ed
    ELSE Deleted(ed,
                 offsetAt(ed.text, Position(ed.selection.start.line,
                                            ed.selection.start.character - Len(before))),
                 offsetAt(ed.text, ed.selection.start),
                 offsetAt(ed.text, ed.selection.end),
                 offsetAt(ed.text, Position(ed.selection.end.line,
                                            ed.selection.end.character + Len(after))))

\* editor.selection = new vscode.Selection(newStart, newEnd) on the new text
KeepSelected(ed, newText, before) ==
    Selected(ed, newText,
             offsetAt(newText, Position(ed.selection.start.line,
                                        ed.selection.start.character + Len(before))),
             offsetAt(newText, Position(ed.selection.end.line,
                                        ed.selection.end.character + Len(before))))

\* The wrap branch for a selection between offsets from and to. An empty
\* selection is left as the cursor behind the inserted text.
Wrap(ed, before, after, from, to) ==
    IF to > from
    THEN KeepSelected(ed,
                      SubSeq(ed.text, 1, from) \o before \o SubSeq(ed.text, from + 1, to)
                          \o after \o SubSeq(ed.text, to + 1, Len(ed.text)),
                      before)
    ELSE Selected(ed,
                  SubSeq(ed.text, 1, from) \o before \o after
                      \o SubSeq(ed.text, to + 1, Len(ed.text)),
                  from + Len(before) + Len(after), from + Len(before) + Len(after))

Toggle(ed, before, after, surroundingText) ==
    IF startsWith(surroundingText, before) /\ endsWith(surroundingText, after)
    THEN Unwrap(ed, before, after)
    ELSE Wrap(ed, before, after,
              offsetAt(ed.text, ed.selection.start), offsetAt(ed.text, ed.selection.end))

\* document.getText(range)
getText(text, start, end) ==
    SubSeq(text, offsetAt(text, start) + 1, offsetAt(text, end))

wrapSelection(ed, before, after) ==
    Toggle(ed, before, after,
           getText(ed.text,
                   Position(ed.selection.start.line,
                            Max(0, ed.selection.start.character - Len(before))),
                   Position(ed.selection.end.line,
                            ed.selection.end.character + Len(after))))

WrapTexts == UNION {[1..n -> WrapChars] : n \in 1..MaxWrapLength}

\* the editor on a document with a selection between two offsets of it
Opened(text, from, to) ==
    [text |-> text,
     selection |-> [start |-> positionAt(text, from), end |-> positionAt(text, to)],
     decorations |-> <<>>, enableWYSIWYG |-> TRUE, lastIndex |-> 0]

\* A document with a non-empty selection in it; inp keeps the text.
InitWrap ==
    /\ NoSession
    /\ NoTasks
    /\ \E text \in WrapTexts :
          \E from \in 0..Len(text), to \in 0..Len(text) :
              /\ from < to
              /\ editor = Opened(text, from, to)
              /\ inp = [text |-> text, from |-> from, to |-> to]
    /\ out = <<>>

ToggleBold ==
    /\ Len(out) < MaxCalls
    /\ editor' = wrapSelection(editor, <<"*", "*">>, <<"*", "*">>)
    /\ out' = Append(out, "markovia.toggleBold")
    /\ UNCHANGED <<inp, trackerVars, taskVars>>

ToggleItalic ==
    /\ Len(out) < MaxCalls
    /\ editor' = wrapSelection(editor, <<"*">>, <<"*">>)
    /\ out' = Append(out, "markovia.toggleItalic")
    /\ UNCHANGED <<inp, trackerVars, taskVars>>

ToggleStrikethrough ==
    /\ Len(out) < MaxCalls
    /\ editor' = wrapSelection(editor, <<"~", "~">>, <<"~", "~">>)
    /\ out' = Append(out, "markovia.toggleStrikethrough")
    /\ UNCHANGED <<inp, trackerVars, taskVars>>

ToggleCode ==
    /\ Len(out) < MaxCalls
    /\ editor' = wrapSelection(editor, <<"U+0060">>, <<"U+0060">>)
    /\ out' = Append(out, "markovia.toggleCode")
    /\ UNCHANGED <<inp, trackerVars, taskVars>>

ToggleUnderline ==
    /\ Len(out) < MaxCalls
    /\ editor' = wrapSelection(editor, <<"<", "u", ">">>, <<"<", "/", "u", ">">>)
    /\ out' = Append(out, "markovia.toggleUnderline")
    /\ UNCHANGED <<inp, trackerVars, taskVars>>

NextWrap ==
    \/ ToggleBold
    \/ ToggleItalic
    \/ ToggleStrikethrough
    \/ ToggleCode
    \/ ToggleUnderline

SpecWrap == InitWrap /\ [][NextWrap]_vars

\* C20: when a command has been invoked on a non-empty selection and then
\* invoked again on the selection the first call left, the text of the
\* document is the text before the first call.
C20_ToggleRestoresText ==
    Len(out) = 2 /\ out[1] = out[2] => editor.text = inp.text

\* ------------------------------------------------------------------ C21
\* TodoScanner.scanDocument: the in-memory scan of a document for uncompleted
\* tasks with TODO_PATTERNS.task, /^\s*[-*+]\s+\[\s\]\s+(.*)$/.

MaxScanTokens == 4

\* \s over the characters of the scanned texts
SpaceClass == {" ", "\t", "\r", "\n"}

\* the characters . does not match
LineTerminators == {"\r", "\n"}

\* (.*)$ from column q: . reaches the end of the input
DotToEnd(line, q) == \A k \in (q + 1)..Len(line) : line[k] \notin LineTerminators

\* \s+(.*)$ where the white space may end at column q at most and at column
\* least at least: the greedy run gives characters back until (.*)$ matches.
\* The column where the group begins, -1 if there is none.
RECURSIVE ContentStart(_, _, _)
ContentStart(line, q, least) ==
    IF q < least THEN -1
    ELSE IF DotToEnd(line, q) THEN q
    ELSE ContentStart(line, q - 1, least)

\* \[\s\]\s+(.*)$ at column box
TaskPatternBox(line, box) ==
    IF Ch(line, box) = "[" /\ Ch(line, box + 1) \in SpaceClass /\ Ch(line, box + 2) = "]"
    THEN ContentStart(line, SpanWhile(line, box + 3, SpaceClass), box + 4)
    ELSE -1

\* [-*+]\s+ at column marker, the white space ending at column box
TaskPatternBullet(line, marker, box) ==
    IF Ch(line, marker) \in {"-", "*", "+"} /\ box > marker + 1
    THEN TaskPatternBox(line, box)
    ELSE -1

TaskPatternFrom(line, marker) ==
    TaskPatternBullet(line, marker, SpanWhile(line, marker + 1, SpaceClass))

\* TODO_PATTERNS.task.exec(line): the column where match[1] begins, -1 when
\* there is no match
TaskPatternExec(line) == TaskPatternFrom(line, SpanWhile(line, 0, SpaceClass))

\* lineText.indexOf(c)
RECURSIVE IndexFrom(_, _, _)
IndexFrom(line, c, p) ==
    IF p >= Len(line) THEN -1
    ELSE IF line[p + 1] = c THEN p
    ELSE IndexFrom(line, c, p + 1)

indexOf(line, c) == IndexFrom(line, c, 0)

\* the column behind the last character that is not white space
RECURSIVE TrimEnd(_, _)
TrimEnd(line, p) ==
    IF p = 0 \/ line[p] \notin SpaceClass THEN p ELSE TrimEnd(line, p - 1)

\* s.trim()
Trim(s) == SubSeq(s, SpanWhile(s, 0, SpaceClass) + 1, TrimEnd(s, Len(s)))

\* parseTodoFromText(filePath, lineNumber, column, taskText) for a text whose
\* group begins at contentStart: null is the empty list. The date and the
\* recurrence of the item are read from the content and do not decide whether
\* there is an item.
TodoFrom(lineNumber, column, taskText, contentStart) ==
    IF contentStart < 0 THEN <<>>
    ELSE <<[lineNumber |-> lineNumber, column |-> column,
            taskText |-> Trim(taskText),
            content |-> SubSeq(taskText, contentStart + 1, Len(taskText))]>>

parseTodoFromText(lineNumber, column, taskText) ==
    TodoFrom(lineNumber, column, taskText, TaskPatternExec(taskText))

\* the body of the loop of scanDocument for line i, counted from 0
ScanLine(lineText, i) ==
    IF TaskPatternExec(lineText) >= 0
    THEN parseTodoFromText(i + 1, indexOf(lineText, "-") + 1, lineText)
    ELSE <<>>

ScanLines(lines) == Concat([i \in 1..Len(lines) |-> ScanLine(lines[i], i - 1)])

scanDocument(text) == ScanLines(Split(text))

\* Pieces of documents: an uncompleted and a completed task, a starred task,
\* text, and the two line endings a document can have.
ScanTokens ==
    {<<"-", " ", "[", " ", "]", " ">>,
     <<"-", " ", "[", "x", "]", " ">>,
     <<"*", " ", "[", " ", "]", " ">>,
     <<"a">>,
     <<"\n">>,
     <<"\r", "\n">>}

ScanTexts == {Concat(ts) : ts \in TokenLists(ScanTokens, MaxScanTokens)}

InitScan == NoSession /\ NoTasks /\ NoEditor /\ inp \in ScanTexts /\ out = <<>>

ScanDocument ==
    /\ out = <<>>
    /\ out' = <<scanDocument(inp)>>
    /\ UNCHANGED <<inp, trackerVars, taskVars, editor>>

NextScan == ScanDocument

SpecScan == InitScan /\ [][NextScan]_vars

\* the line without the carriage return of its line ending
WithoutReturn(line) ==
    IF Len(line) > 0 /\ line[Len(line)] = "\r" THEN SubSeq(line, 1, Len(line) - 1)
    ELSE line

\* the lines of the document as the editor shows them
DocumentLines(text) ==
    [i \in 1..Len(Split(text)) |-> WithoutReturn(Split(text)[i])]

Blanks(line, from, to) == \A k \in from..to : line[k] \in {" ", "\t"}

\* indent, one of - * +, spaces, [ ], spaces, text
IsUncompletedTask(line) ==
    \E a \in 0..Len(line), b \in 1..Len(line), c \in 1..Len(line) :
        /\ a + b + c + 4 <= Len(line)
        /\ Blanks(line, 1, a)
        /\ line[a + 1] \in {"-", "*", "+"}
        /\ Blanks(line, a + 2, a + b + 1)
        /\ line[a + b + 2] = "["
        /\ line[a + b + 3] = " "
        /\ line[a + b + 4] = "]"
        /\ Blanks(line, a + b + 5, a + b + c + 4)

TaskLineNumbers(lines) ==
    SelectSeq([i \in 1..Len(lines) |-> i], LAMBDA i : IsUncompletedTask(lines[i]))

LineNumbers(todos) == [i \in 1..Len(todos) |-> todos[i].lineNumber]

\* C21: the items scanDocument returns are one for each line of the document
\* that is an uncompleted task, in line order, numbered from 1, and none for
\* any other line.
C21_ScanFindsTasks ==
    out # <<>> => LineNumbers(out[1]) = TaskLineNumbers(DocumentLines(inp))

\* ------------------------------------------------------------ C22 to C25
\* The line scan of parseAndDecorate with its state made visible: for every
\* line whether the scan was inside a code block before and after it, and the
\* spans the line pushed.

MaxBlockTokens == 4

RECURSIVE LineTrace(_, _, _, _)
TraceFrom(lines, i, inCodeBlock, this) ==
    <<[inside |-> inCodeBlock, inCodeBlock |-> this.inCodeBlock, spans |-> this.spans]>>
    \o LineTrace(lines, i + 1, this.inCodeBlock, this.lastIndex)

\* the for loop of parseAndDecorate from line i on, line by line
LineTrace(lines, i, inCodeBlock, lastIndex) ==
    IF i >= Len(lines) THEN <<>>
    ELSE TraceFrom(lines, i, inCodeBlock, ParseLine(i, lines[i + 1], inCodeBlock, lastIndex))

\* Pieces of documents: a fence, a line feed, text, emphasis, and the markers
\* of a heading, a blockquote, a list item, a task and a horizontal rule.
BlockTokens ==
    {<<"U+0060", "U+0060", "U+0060">>,
     <<"\n">>,
     <<"a">>,
     <<"*", "a", "*">>,
     <<"#", " ">>,
     <<">", " ">>,
     <<"-", " ">>,
     <<"[", " ", "]", " ">>,
     <<"-", "-", "-">>}

BlockTexts == {Concat(ts) : ts \in TokenLists(BlockTokens, MaxBlockTokens)}

InitBlocks == NoSession /\ NoTasks /\ NoEditor /\ inp \in BlockTexts /\ out = <<>>

ScanLinesOfText ==
    /\ out = <<>>
    /\ out' = <<LineTrace(Split(inp), 0, FALSE, 0)>>
    /\ UNCHANGED <<inp, trackerVars, taskVars, editor>>

NextBlocks == ScanLinesOfText

SpecBlocks == InitBlocks /\ [][NextBlocks]_vars

\* a line that begins with three backticks
FenceLine(line) ==
    Len(line) >= 3 /\ \A k \in 1..3 : line[k] = "U+0060"

FenceCount(lines, i) == Cardinality({k \in 1..i : FenceLine(lines[k])})

\* C22: after every line the scan is inside a code block exactly when the
\* number of fence lines up to and including that line is odd, so a fence
\* that is never closed keeps every later line inside; a fence line pushes no
\* span of block content, of a container or of an inline construct.
C22_FenceParity ==
    out # <<>> =>
        \A i \in 1..Len(out[1]) :
            /\ out[1][i].inCodeBlock <=> FenceCount(Split(inp), i) % 2 = 1
            /\ FenceLine(Split(inp)[i]) =>
                  \A k \in 1..Len(out[1][i].spans) :
                      out[1][i].spans[k].kind = "codeblock-fence"

\* an opening fence with emphasis behind it, and a line of emphasis behind
\* the fence that is never closed
C22_Witness ==
    /\ out # <<>>
    /\ Len(out[1]) = 2
    /\ FenceLine(Split(inp)[1])
    /\ Len(Split(inp)[1]) > 3
    /\ Split(inp)[2] = <<"*", "a", "*">>
    /\ out[1][1].inCodeBlock
    /\ out[1][2].inCodeBlock

\* a fence that is closed again
C22_WitnessClosed ==
    /\ out # <<>>
    /\ Len(out[1]) = 2
    /\ out[1][1].inCodeBlock
    /\ ~out[1][2].inCodeBlock

\* C23: a line scanned inside a code block that is not a fence pushes exactly
\* one span, of block content, over the whole line.
C23_BlockContentSpan ==
    out # <<>> =>
        \A i \in 1..Len(out[1]) :
            out[1][i].inside /\ ~FenceLine(Split(inp)[i]) =>
                out[1][i].spans =
                    <<[kind |-> "codeblock-content", line |-> i - 1,
                       from |-> 0, to |-> Len(Split(inp)[i])]>>

\* the container a kind of span belongs to
ContainerOf(kind) ==
    IF kind \in {"h1-syntax", "h1-content", "h2-syntax", "h2-content",
                 "h3-syntax", "h3-content", "h4-syntax", "h4-content",
                 "h5-syntax", "h5-content", "h6-syntax", "h6-content"}
    THEN "heading"
    ELSE IF kind = "hr" THEN "rule"
    ELSE IF kind \in {"blockquote-marker", "blockquote-content"} THEN "blockquote"
    ELSE IF kind = "list-marker" THEN "list"
    ELSE "none"

Containers(spans) ==
    {ContainerOf(spans[k].kind) : k \in 1..Len(spans)} \ {"none"}

\* the first container pattern the line matches, in the fixed order
FirstContainer(line) ==
    IF HeadingLevel(line) > 0 THEN "heading"
    ELSE IF IsRule(line) THEN "rule"
    ELSE IF IsBlockquote(line) THEN "blockquote"
    ELSE IF TaskMatch(line).matched THEN "list"
    ELSE IF ListSpans(0, line) # <<>> THEN "list"
    ELSE "none"

ListMarkers(spans) == Cardinality({k \in 1..Len(spans) : spans[k].kind = "list-marker"})

\* C24: a line scanned outside a code block pushes the spans of one container
\* at most, the first in the order heading, rule, blockquote, task, list
\* whose pattern it matches, and a task line pushes one list-marker span.
C24_OneContainer ==
    out # <<>> =>
        \A i \in 1..Len(out[1]) :
            ~out[1][i].inside /\ ~FenceLine(Split(inp)[i]) =>
                /\ Containers(out[1][i].spans) = {FirstContainer(Split(inp)[i])} \ {"none"}
                /\ ListMarkers(out[1][i].spans) <= 1
                /\ TaskMatch(Split(inp)[i]).matched => ListMarkers(out[1][i].spans) = 1

C24_Witness ==
    /\ out # <<>>
    /\ Len(out[1]) = 2
    /\ Split(inp)[1] = <<"-", " ", "[", " ", "]", " ">>
    /\ ListMarkers(out[1][1].spans) = 1
    /\ Split(inp)[2] = <<"-", "-", "-">>
    /\ Containers(out[1][2].spans) = {"rule"}

Includes(spans, inline) ==
    \A k \in 1..Len(inline) : \E j \in 1..Len(spans) : spans[j] = inline[k]

\* C25: a heading, blockquote or list line outside a code block pushes a
\* marker span for its prefix and every span its inline constructs give.
C25_InlineBehindPrefix ==
    out # <<>> =>
        \A i \in 1..Len(out[1]) :
            /\ ~out[1][i].inside
            /\ ~FenceLine(Split(inp)[i])
            /\ FirstContainer(Split(inp)[i]) \in {"heading", "blockquote", "list"}
            => /\ \E k \in 1..Len(out[1][i].spans) :
                     out[1][i].spans[k].kind \in
                         {"h1-syntax", "h2-syntax", "h3-syntax", "h4-syntax",
                          "h5-syntax", "h6-syntax", "blockquote-marker", "list-marker"}
               /\ Includes(out[1][i].spans,
                           parseInlineFormatting(i - 1, Split(inp)[i], 0).spans)

\* ------------------------------------------------------------------ C26
\* One pass over a one-line document of emphasis delimiters and text.
MaxEmphasisLength == 7

EmphasisLines == UNION {[1..n -> {"*", "_", "a"}] : n \in 0..MaxEmphasisLength}

InitEmphasis == NoSession /\ NoTasks /\ NoEditor /\ inp \in EmphasisLines /\ out = <<>>

SpecEmphasis == InitEmphasis /\ [][NextParse]_vars

\* C26: no italic span of a pass shares a column with a bold span of the
\* pass, and the line **a** gives bold-syntax, bold-content, bold-syntax and
\* nothing else.
C26_ItalicClearOfBold ==
    out # <<>> =>
        /\ \A i \in 1..Len(out[1]) : \A j \in 1..Len(out[1]) :
              /\ out[1][i].kind \in {"italic-syntax", "italic-content"}
              /\ out[1][j].kind \in {"bold-syntax", "bold-content"}
              => ~Overlap(out[1][i], out[1][j])
        /\ inp = <<"*", "*", "a", "*", "*">> =>
              Kinds(out[1]) = <<"bold-syntax", "bold-content", "bold-syntax">>

\* ------------------------------------------------------------------ C27
\* mergeRanges and addRange on range objects: the heap maps every object to
\* its fields, an array is the sequence of the objects it holds.
MaxHeapLine == 3

\* [...ranges].sort((a, b) => a.start - b.start): the objects by their start
SortedObjects(heap, array) ==
    [i \in 1..Len(array) |->
        SortByStart([k \in 1..Len(array) |->
                        [object |-> array[k], start |-> heap[array[k]].start]])[i].object]

\* The for loop of mergeRanges on the objects: last.end is assigned in the
\* object that merged, sorted and the array passed in all hold.
RECURSIVE MergeObjects(_, _, _, _)
MergeObjects(heap, sorted, i, merged) ==
    IF i > Len(sorted) THEN [heap |-> heap, result |-> merged]
    ELSE IF Touches(heap[sorted[i]], heap[merged[Len(merged)]])
    THEN MergeObjects([heap EXCEPT ![merged[Len(merged)]].end =
                           MergedEnd(heap[merged[Len(merged)]], heap[sorted[i]])],
                      sorted, i + 1, merged)
    ELSE MergeObjects(heap, sorted, i + 1, Append(merged, sorted[i]))

MergeSorted(heap, sorted) == MergeObjects(heap, sorted, 2, <<sorted[1]>>)

mergeRangesInPlace(heap, array) ==
    IF Len(array) = 0 THEN [heap |-> heap, result |-> <<>>]
    ELSE MergeSorted(heap, SortedObjects(heap, array))

addRangeInPlace(heap, array, newRange) ==
    mergeRangesInPlace(heap, Append(array, newRange))

HeapLines == 0..MaxHeapLine

HeapSets ==
    {rs \in UNION {[1..n -> [start : HeapLines, end : HeapLines]] : n \in 0..2} :
        Normalized(rs)}

\* A set the tracker holds, each range an object of its own, and one more
\* range object.
InitHeap ==
    /\ NoSession
    /\ NoTasks
    /\ NoEditor
    /\ \E rs \in HeapSets, r \in {x \in [start : HeapLines, end : HeapLines] : x.start <= x.end} :
          inp = [heap |-> Append(rs, r),
                 ranges |-> [i \in 1..Len(rs) |-> i],
                 newRange |-> Len(rs) + 1]
    /\ out = <<>>

CallAddRange ==
    /\ out = <<>>
    /\ out' = <<[passed |-> inp.ranges,
                 call |-> addRangeInPlace(inp.heap, inp.ranges, inp.newRange)]>>
    /\ UNCHANGED <<inp, trackerVars, taskVars, editor>>

CallMergeRanges ==
    /\ out = <<>>
    /\ out' = <<[passed |-> Append(inp.ranges, inp.newRange),
                 call |-> mergeRangesInPlace(inp.heap, Append(inp.ranges, inp.newRange))]>>
    /\ UNCHANGED <<inp, trackerVars, taskVars, editor>>

NextHeap == CallAddRange \/ CallMergeRanges

SpecHeap == InitHeap /\ [][NextHeap]_vars

\* C27: after addRange or mergeRanges every range object of the array that
\* was passed in has the start and the end it had before the call.
C27_CallsArePure ==
    out # <<>> =>
        \A k \in 1..Len(out[1].passed) :
            out[1].call.heap[out[1].passed[k]] = inp.heap[out[1].passed[k]]

\* ------------------------------------------------------------------ C28
\* parseAuthorship: the ranges a document is opened with, read from the
\* parsed frontmatter. A persisted value is a number or something else.
MaxLoadLine == 2

MaxPersisted == 2

Number(n) == [number |-> TRUE, value |-> n]

NotANumber == [number |-> FALSE, value |-> 0]

\* the filter of parseAuthorship
ValidPersisted(range) ==
    /\ range.start.number
    /\ range.end.number
    /\ range.start.value >= 0
    /\ range.end.value >= range.start.value

Loaded(external) ==
    [i \in 1..Len(external) |->
        [start |-> external[i].start.value, end |-> external[i].end.value]]

parseAuthorship(frontmatter) ==
    IF ~frontmatter.hasAuthorship \/ ~frontmatter.isArray THEN <<>>
    ELSE Loaded(SelectSeq(frontmatter.external, ValidPersisted))

PersistedValues == {Number(n) : n \in (-1)..MaxLoadLine} \cup {NotANumber}

PersistedLists ==
    UNION {[1..n -> [start : PersistedValues, end : PersistedValues]] : n \in 0..MaxPersisted}

\* frontmatter without an authorship entry, with one whose external member is
\* no list, and with a list of persisted ranges
InitLoad ==
    /\ NoSession
    /\ NoTasks
    /\ NoEditor
    /\ \/ inp = [hasAuthorship |-> FALSE, isArray |-> FALSE, external |-> <<>>]
       \/ inp = [hasAuthorship |-> TRUE, isArray |-> FALSE, external |-> <<>>]
       \/ \E external \in PersistedLists :
             inp = [hasAuthorship |-> TRUE, isArray |-> TRUE, external |-> external]
    /\ out = <<>>

LoadAuthorship ==
    /\ out = <<>>
    /\ out' = <<parseAuthorship(inp)>>
    /\ UNCHANGED <<inp, trackerVars, taskVars, editor>>

NextLoad == LoadAuthorship

SpecLoad == InitLoad /\ [][NextLoad]_vars

\* C28: the list parseAuthorship returns holds the persisted ranges with
\* numeric bounds, start >= 0 and end >= start and no others, and it is
\* sorted by start with a gap of at least one line between neighbours.
C28_LoadedSetIsNormalized ==
    out # <<>> =>
        /\ \A i \in 1..Len(out[1]) : 0 <= out[1][i].start /\ out[1][i].start <= out[1][i].end
        /\ Normalized(out[1])


\* ------------------------------------------------ the todo features (C29, C30)
\* TodoNotificationService sets one timer for the daily check; the callback of
\* the timer awaits checkAndNotify and then calls scheduleNextCheck.
\* TodoPanelProvider holds the todo list, filled by scan() and kept up to date
\* by updateFile and removeFile on the events of the workspace.
MaxTimers == 2

MaxFiles == 2

MaxVersion == 2

Files == 1..MaxFiles

\* The markdown files of the workspace: per file the version of its text,
\* 0 for a file that does not exist.  A file holds one task, whose text is
\* the version.
Workspaces == [Files -> 0..MaxVersion]

TodoItem(file, version) == [file |-> file, text |-> version]

\* clearTimeout(this.dailyCheckTimer) under if (this.dailyCheckTimer).
ClearTimer(s) ==
    IF s.dailyCheckTimer # 0 THEN s.timers \ {s.dailyCheckTimer} ELSE s.timers

\* scheduleNextCheck clears the timer it holds and sets a new one.
scheduleNextCheck(s) ==
    [s EXCEPT !.timers = ClearTimer(s) \cup {s.created + 1},
              !.dailyCheckTimer = s.created + 1,
              !.created = s.created + 1]

\* checkAndNotify is started; checkedAfterDispose records a start that
\* follows dispose().
checkAndNotify(s) ==
    [s EXCEPT !.checkedAfterDispose = s.checkedAfterDispose \/ s.disposed]

dispose(s) == [s EXCEPT !.timers = ClearTimer(s), !.disposed = TRUE]

\* scanWorkspace: the tasks of the files that exist, as the scanner reads
\* them.
RECURSIVE ScanFiles(_, _)
ScanFiles(files, file) ==
    IF file > MaxFiles THEN <<>>
    ELSE (IF files[file] = 0 THEN <<>>
          ELSE <<TodoItem(file, files[file])>>)
         \o ScanFiles(files, file + 1)

scanWorkspace(files) == ScanFiles(files, 1)

\* todos.filter(todo => todo.uri.fsPath !== fsPath)
RECURSIVE FilterOut(_, _)
FilterOut(todos, file) ==
    IF todos = <<>> THEN <<>>
    ELSE (IF Head(todos).file = file THEN <<>> ELSE <<Head(todos)>>)
         \o FilterOut(Tail(todos), file)

\* scan() up to its await: it returns at once while a scan is in flight.
scan(p) ==
    IF p.isScanning THEN p
    ELSE [p EXCEPT !.isScanning = TRUE, !.scanner = "started"]

\* updateFile(document): the tasks of the file are replaced by the tasks
\* of the document.
updateFile(p, file, version) ==
    [p EXCEPT !.todos = FilterOut(p.todos, file)
                        \o <<TodoItem(file, version)>>]

removeFile(p, file) == [p EXCEPT !.todos = FilterOut(p.todos, file)]

\* activate(): the panel has scanned the workspace, the service is
\* constructed and pushed to context.subscriptions, and the startup check
\* is awaited.
InitTasks ==
    /\ NoSession
    /\ NoCall
    /\ NoEditor
    /\ workspace \in Workspaces
    /\ panel = [todos |-> scanWorkspace(workspace), isScanning |-> FALSE,
                scanner |-> "idle", found |-> <<>>, failed |-> FALSE]
    /\ service = [dailyCheckTimer |-> 0, timers |-> {}, created |-> 0,
                  awaiting |-> 0, activation |-> "checking",
                  disposed |-> FALSE, checkedAfterDispose |-> FALSE]

\* The startup check is over: activate() calls scheduleNextCheck and goes
\* on to register the commands and the watchers of the workspace.
StartupCheckDone ==
    /\ service.activation = "checking"
    /\ service.created < MaxTimers
    /\ service' = [scheduleNextCheck(service) EXCEPT !.activation = "done"]
    /\ UNCHANGED <<panel, workspace, trackerVars, callVars, editor>>

\* A pending timer fires: its callback starts checkAndNotify, which awaits
\* a notification when the panel holds tasks that are due, and otherwise
\* goes on to scheduleNextCheck.
TimerFires ==
    \E timer \in service.timers, notifies \in BOOLEAN :
        /\ notifies => Len(panel.todos) > 0
        /\ ~notifies => service.created < MaxTimers
        /\ service' =
               IF notifies
               THEN [checkAndNotify(service) EXCEPT
                         !.timers = service.timers \ {timer},
                         !.awaiting = service.awaiting + 1]
               ELSE scheduleNextCheck(
                        [checkAndNotify(service) EXCEPT
                             !.timers = service.timers \ {timer}])
        /\ UNCHANGED <<panel, workspace, trackerVars, callVars, editor>>

\* The notification awaited by a callback is over: the callback calls
\* scheduleNextCheck.
CheckDone ==
    /\ service.awaiting > 0
    /\ service.created < MaxTimers
    /\ service' = scheduleNextCheck(
                      [service EXCEPT !.awaiting = service.awaiting - 1])
    /\ UNCHANGED <<panel, workspace, trackerVars, callVars, editor>>

\* The extension is deactivated: context.subscriptions disposes the service.
Dispose ==
    /\ ~service.disposed
    /\ service' = dispose(service)
    /\ UNCHANGED <<panel, workspace, trackerVars, callVars, editor>>

Watching == service.activation = "done" /\ ~service.disposed

\* markovia.refreshTodoPanel
RefreshTodoPanel ==
    /\ Watching
    /\ panel' = scan(panel)
    /\ UNCHANGED <<service, workspace, trackerVars, callVars, editor>>

\* onDidCreateFiles: a file is created and the workspace is scanned again.
CreateFiles ==
    \E file \in Files :
        /\ Watching
        /\ workspace[file] = 0
        /\ workspace' = [workspace EXCEPT ![file] = 1]
        /\ panel' = scan(panel)
        /\ UNCHANGED <<service, trackerVars, callVars, editor>>

\* onDidSaveTextDocument: a file is saved with a new text.
SaveTextDocument ==
    \E file \in Files :
        /\ Watching
        /\ workspace[file] \in 1..(MaxVersion - 1)
        /\ workspace' = [workspace EXCEPT ![file] = workspace[file] + 1]
        /\ panel' = updateFile(panel, file, workspace[file] + 1)
        /\ UNCHANGED <<service, trackerVars, callVars, editor>>

\* onDidDeleteFiles
DeleteFiles ==
    \E file \in Files :
        /\ Watching
        /\ workspace[file] # 0
        /\ workspace' = [workspace EXCEPT ![file] = 0]
        /\ panel' = removeFile(panel, file)
        /\ UNCHANGED <<service, trackerVars, callVars, editor>>

\* The scanner awaited by scan() reads the files of the workspace.
ScannerReads ==
    /\ panel.scanner = "started"
    /\ panel' = [panel EXCEPT !.scanner = "read",
                              !.found = scanWorkspace(workspace)]
    /\ UNCHANGED <<service, workspace, trackerVars, callVars, editor>>

\* scan() after its await: this.todos = await this.scanner.scanWorkspace(),
\* then finally.
ScanResolves ==
    /\ panel.scanner = "read"
    /\ panel' = [panel EXCEPT !.todos = panel.found, !.found = <<>>,
                              !.scanner = "idle", !.isScanning = FALSE]
    /\ UNCHANGED <<service, workspace, trackerVars, callVars, editor>>

\* The scanner rejects: catch shows the error, then finally.
ScanRejects ==
    /\ panel.scanner \in {"started", "read"}
    /\ panel' = [panel EXCEPT !.found = <<>>, !.scanner = "idle",
                              !.isScanning = FALSE, !.failed = TRUE]
    /\ UNCHANGED <<service, workspace, trackerVars, callVars, editor>>

NextTasks ==
    \/ StartupCheckDone
    \/ TimerFires
    \/ CheckDone
    \/ Dispose
    \/ RefreshTodoPanel
    \/ CreateFiles
    \/ SaveTextDocument
    \/ DeleteFiles
    \/ ScannerReads
    \/ ScanResolves
    \/ ScanRejects

SpecTasks == InitTasks /\ [][NextTasks]_vars

\* C29: after TodoNotificationService.dispose() no daily-check timer is
\* pending and checkAndNotify is not started again, whatever the
\* interleaving, and at every moment at most one daily-check timer is
\* pending.
C29_DisposeStopsChecks ==
    /\ service.disposed =>
           service.timers = {} /\ ~service.checkedAfterDispose
    /\ Cardinality(service.timers) <= 1

\* The half of C29 that holds: at most one daily-check timer is pending.
OneTimer == Cardinality(service.timers) <= 1

Items(todos) == {todos[i] : i \in 1..Len(todos)}

\* C30: once no scan is in flight and no scan has failed, the todo list
\* holds the tasks of the files of the workspace, so no update, removal or
\* scan request made during a scan is lost; and isScanning is false when no
\* scan is in flight.
C30_NoUpdateLost ==
    /\ (panel.scanner = "idle" /\ ~panel.failed) =>
           Items(panel.todos) = Items(scanWorkspace(workspace))
    /\ panel.scanner = "idle" => ~panel.isScanning

\* The half of C30 that holds: isScanning is true only while a scan is in
\* flight.
ScanningOnlyInFlight == panel.isScanning <=> panel.scanner # "idle"
====
